---- MODULE Spec2Model ----
(***************************************************************************)
(* Global input capture engine of keyboard-playground.                     *)
(*                                                                         *)
(* Two builds of the same controller are modelled, selected by `platform`: *)
(*   linux   : src/linux/input_capture_plugin.cc  (X11 RECORD, one worker  *)
(*             thread blocked in XRecordEnableContext)                     *)
(*   windows : src/windows/runner/input_capture_plugin.cpp (two low-level  *)
(*             hooks, callbacks invoked by the OS)                         *)
(* Every handler is modelled statement by statement: the platform thread   *)
(* has a program counter (l_pc / w_pc), the Linux worker thread and the    *)
(* Windows hook callback have their own, and their steps interleave.       *)
(* The variables of the build that is not selected keep their initial      *)
(* values.                                                                 *)
(*                                                                         *)
(* Environment: an acquisition (XOpenDisplay, XRecordAllocRange,           *)
(* XRecordCreateContext, pthread_create, SetWindowsHookEx) may fail at any *)
(* call; a hook invocation is dispatched while its hook is installed and   *)
(* may still be executing after the hook has been removed.                 *)
(*                                                                         *)
(* Specifications:                                                         *)
(*   Spec         both builds.  The Linux controller is taken as           *)
(*                registered with a reference held by the embedder         *)
(*                (Registered), and a request on the query connection is   *)
(*                at the server when the Xlib call returns (x_sync).       *)
(*   AsyncSpec    the Linux build with the query connection as             *)
(*                XOpenDisplay leaves it: requests without a reply wait in *)
(*                Xlib's output buffer; every thread that can take a step  *)
(*                eventually takes it (weak fairness).                     *)
(*   RegisterSpec the Linux build from the entry of                        *)
(*                input_capture_plugin_register_with_registrar: the        *)
(*                reference count of the controller is followed.           *)
(*   DecodeSpec   the decoders of both builds as functions of one raw      *)
(*                record.                                                  *)
(***************************************************************************)
EXTENDS Integers, Sequences, FiniteSets, TLC

\* ------------------------------------------------------------------ bounds
\* Number of OS objects of one kind (X connections, record contexts,
\* threads, hooks of one type) the OS grants before an acquisition fails.
MaxRes == 2
\* Raw records / hook invocations delivered in one run of the model.
MaxEvents == 2
\* Distinct consumers that may subscribe to the event stream.
MaxSink == 2

\* ---------------------------------------------------------------- constants
\* nullptr / 0: the empty value of a pointer, handle or XID field.
NULL == 0

VARIABLES
  platform,        \* "linux" or "windows": the build under consideration
  \* ---- Linux: struct _InputCapturePlugin and the platform thread
  l_pc,            \* statement the platform thread is at ("idle" = no call)
  l_call,          \* method name being handled
  l_reply,         \* last response sent on the method channel
  l_fail,          \* acquisition step that failed in the current startCapture
  is_capturing,    \* self->is_capturing
  thread_running,  \* self->thread_running
  record_display,  \* self->record_display (NULL or a connection id)
  record_context,  \* self->record_context (0 or a context XID)
  record_thread,   \* self->record_thread (0 = never written, else a thread id)
  range,           \* TRUE while the XRecordRange allocated by start is live
  \* ---- Linux: operating system / X server
  x11_record,      \* TRUE iff the RECORD extension is available
  x_conns,         \* open record connections (set of connection ids)
  x_ctxs,          \* context XID -> "none" | "created" | "enabled"
  threads,         \* thread id -> "none"|"spawned"|"enabled"|"callback"|"exited"
  t_ctx,           \* thread id -> context it is blocked on (0 = none)
  l_events,        \* record callbacks run since the last Start began
  display,         \* self->display: the query connection (NULL or MainDisplay)
  event_handler,   \* self->event_handler (NULL or the handler object)
  l_listening,     \* TRUE while a consumer is subscribed to the event channel
  l_sent,          \* TRUE iff the last record callback handed an event to
                   \* fl_event_channel_send
  l_sent_unheard,  \* TRUE once an event was handed to the channel while no
                   \* consumer was subscribed
  t_rec,           \* thread id -> the raw record its callback is running on
  x_sync,          \* TRUE iff Xlib runs the query connection synchronously
                   \* (XSynchronize): a request is at the server when the
                   \* call returns; FALSE is Xlib's default, requests that
                   \* have no reply wait in the output buffer
  x_out,           \* output buffer of the query connection: requests
                   \* issued and not yet written to the server
  keysyms,         \* TRUE once Xlib has loaded the keyboard mapping into
                   \* the query connection (dpy->keysyms)
  r_pc,            \* statement register_with_registrar is at ("done" =
                   \* it has returned)
  ref_count,       \* reference count of the controller object
  \* ---- Windows: class InputCapturePlugin and the platform thread
  w_pc,            \* statement the platform thread is at ("idle" = no call)
  w_call,          \* method (or destructor) being executed
  w_reply,         \* last response sent on the method channel
  w_fail,          \* hook whose installation failed in the current StartCapture
  w_ret,           \* value returned by StartCapture
  life,            \* "alive" | "destructing" | "destroyed"
  instance_,       \* static InputCapturePlugin::instance_ (NULL or THIS)
  keyboard_hook_,  \* HHOOK field (NULL or a handle)
  mouse_hook_,     \* HHOOK field (NULL or a handle)
  is_capturing_,   \* bool field
  event_sink_,     \* registered consumer (NULL or a consumer id)
  \* ---- Windows: operating system
  os_kbd,          \* installed WH_KEYBOARD_LL hooks (set of handles)
  os_mouse,        \* installed WH_MOUSE_LL hooks (set of handles)
  \* ---- Windows: the hook invocation in flight
  cb_pc,           \* "none" | "check" | "decode" | "send" | "crashed"
  cb_kind,         \* "keyboard" | "mouse"
  cb_msg,          \* wParam of the invocation
  cb_nCode,        \* nCode of the invocation
  cb_ret,          \* LRESULT the last finished invocation returned
  cb_fwd,          \* TRUE iff it returned through CallNextHookEx
  cb_sent,         \* TRUE iff it delivered an event to the sink
  cb_deref,        \* TRUE once a callback went through a controller pointer
                   \* that was null or named the destroyed object
  w_events,        \* hook invocations dispatched since the last Start began
  hooks_available, \* TRUE iff SetWindowsHookEx can install low-level hooks
  w_listener,      \* consumer of the last OnListen not yet cancelled (or NULL)
  cb_to,           \* consumer the last invocation delivered to (or NULL)
  \* ---- the decoder on its own (specification DecodeSpec)
  d_pc,            \* "off" | "idle" | "wait" | "sent" | "dropped"
  raw,             \* the raw record handed to the callback
  event_map        \* the event built for it (field name -> value)

linuxVars == <<l_pc, l_call, l_reply, l_fail, is_capturing, thread_running,
               record_display, record_context, record_thread, range,
               x11_record, x_conns, x_ctxs, threads, t_ctx, l_events,
               display, event_handler, l_listening, l_sent, l_sent_unheard,
               t_rec, x_sync, x_out, keysyms, r_pc, ref_count>>

winVars == <<w_pc, w_call, w_reply, w_fail, w_ret, life, instance_,
             keyboard_hook_, mouse_hook_, is_capturing_, event_sink_, os_kbd,
             os_mouse, cb_pc, cb_kind, cb_msg, cb_nCode, cb_ret, cb_fwd,
             cb_sent, cb_deref, w_events, hooks_available, w_listener,
             cb_to>>

decodeVars == <<d_pc, raw, event_map>>

vars == <<platform, linuxVars, winVars, decodeVars>>

Ids == 1..MaxRes

\* Smallest id of Ids not in `used`, or NULL when the OS has none left.
FreeId(used) ==
  IF Ids \ used = {} THEN NULL
  ELSE CHOOSE i \in Ids \ used : \A j \in Ids \ used : i <= j

Methods == {"startCapture", "stopCapture", "isCapturing", "checkPermissions",
            "requestPermissions"}

\* A response: the method answered, the value, and the method and value of
\* the response before it.
NoReply == [method |-> "none", value |-> FALSE, prev |-> "none",
            pvalue |-> FALSE]

\* ================================================================== decoders
\* The bodies of record_event_callback (Linux) and of KeyboardHookProc /
\* MouseHookProc (Windows) as functions from a raw record to the event map
\* they build.  A string value (a key name) is the sequence of its character
\* codes; a floating-point value is the fraction it stands for.

\* An event map: a function from the names of the populated fields to
\* their values.
EmptyMap == << >>
NoRaw == [kind |-> "none"]

\* fl_value_set_string_take(map, k, v) / event[k] = v: store v under k.
Put(m, k, v) == [f \in (DOMAIN m) \cup {k} |-> IF f = k THEN v ELSE m[f]]
\* fl_value_remove(map, k).
Remove(m, k) == [f \in (DOMAIN m) \ {k} |-> m[f]]

\* The printable ASCII characters 32..95 and 97..126, in code order.
AsciiLow  == " !\"#$%&'()*+,-./0123456789:;<=>?@ABCDEFGHIJKLMNOPQRSTUVWXYZ[\\]^_"
AsciiHigh == "abcdefghijklmnopqrstuvwxyz{|}~"

\* The character code of a one-character string.
CodeOf(c) ==
  IF \E i \in 1..Len(AsciiLow) : SubSeq(AsciiLow, i, i) = c
  THEN 31 + (CHOOSE i \in 1..Len(AsciiLow) : SubSeq(AsciiLow, i, i) = c)
  ELSE 96 + (CHOOSE i \in 1..Len(AsciiHigh) : SubSeq(AsciiHigh, i, i) = c)

\* A string literal of the source as the sequence of its character codes.
Str(s) == [i \in 1..Len(s) |-> CodeOf(SubSeq(s, i, i))]

\* The decimal digits of n >= 0, as "%lu" and std::to_string print them.
RECURSIVE Decimal(_)
Decimal(n) ==
  IF n < 10 THEN <<48 + n>> ELSE Decimal(n \div 10) \o <<48 + (n % 10)>>

\* t occurs in s as a contiguous piece.
Contains(s, t) ==
  \E i \in 1..(Len(s) - Len(t) + 1) : SubSeq(s, i, i + Len(t) - 1) = t

\* Reading a 16-bit word as int16_t / short.
ToInt16(w) == IF w >= 32768 THEN w - 65536 ELSE w

RECURSIVE GCD(_, _)
GCD(a, b) == IF b = 0 THEN a ELSE GCD(b, a % b)

\* The value n / d (d > 0) as a fraction in lowest terms.
Quotient(n, d) ==
  LET g == GCD(IF n < 0 THEN -n ELSE n, d)
  IN  [num |-> n \div g, den |-> d \div g]

\* An integer converted to floating point.
Double(n) == Quotient(n, 1)

\* state & mask, for a mask of one bit.
MaskSet(state, mask) == (state \div mask) % 2 = 1

\* What a callback did with its record: the event it sent, or nothing.
Sent(m) == [sent |-> TRUE, map |-> m]
Dropped == [sent |-> FALSE, map |-> EmptyMap]

\* ------------------------------------------------------------ Linux decoder
\* X11 core protocol values the source names (X.h, record.h).
XRecordFromServer == 0
KeyPress == 2
KeyRelease == 3
ButtonPress == 4
ButtonRelease == 5
MotionNotify == 6
ShiftMask == 1
ControlMask == 4
Mod1Mask == 8
Mod4Mask == 64

\* Line 228: XKeycodeToKeysym(self->display, keycode, 0) under the server's
\* keyboard mapping.  The mapping taken here is the usual one of a PC
\* keyboard, cut down to a few keys; a keycode with no key has NoSymbol (0).
XKeycodeToKeysym(keycode) ==
  CASE keycode = 10  -> 49      \* XK_1
    [] keycode = 36  -> 65293   \* XK_Return
    [] keycode = 38  -> 97      \* XK_a
    [] keycode = 49  -> 96      \* XK_grave
    [] keycode = 50  -> 65505   \* XK_Shift_L
    [] keycode = 65  -> 32      \* XK_space
    [] keycode = 67  -> 65470   \* XK_F1
    [] keycode = 96  -> 65481   \* XK_F12
    [] keycode = 119 -> 65535   \* XK_Delete
    [] keycode = 133 -> 65515   \* XK_Super_L
    [] keycode = 134 -> 65516   \* XK_Super_R
    [] keycode = 135 -> 65383   \* XK_Menu
    [] OTHER         -> 0       \* NoSymbol

\* Lines 318-367: keycode_to_string.
keycode_to_string(keysym) ==
  IF keysym >= 32 /\ keysym <= 126          \* XK_space .. XK_asciitilde
  THEN <<keysym>>
  ELSE CASE keysym = 65293 -> Str("Return")
         [] keysym = 65289 -> Str("Tab")
         [] keysym = 65288 -> Str("Backspace")
         [] keysym = 65307 -> Str("Escape")
         [] keysym = 65535 -> Str("Delete")
         [] keysym = 65360 -> Str("Home")
         [] keysym = 65367 -> Str("End")
         [] keysym = 65365 -> Str("PageUp")
         [] keysym = 65366 -> Str("PageDown")
         [] keysym = 65361 -> Str("Left")
         [] keysym = 65363 -> Str("Right")
         [] keysym = 65362 -> Str("Up")
         [] keysym = 65364 -> Str("Down")
         [] keysym >= 65470 /\ keysym <= 65481      \* XK_F1 .. XK_F12
                           -> Str("F") \o Decimal(keysym - 65469)
         [] keysym \in {65505, 65506} -> Str("Shift")
         [] keysym \in {65507, 65508} -> Str("Control")
         [] keysym \in {65513, 65514} -> Str("Alt")
         [] keysym \in {65515, 65516} -> Str("Super")
         [] OTHER -> Str("Key") \o Decimal(keysym)

\* Lines 233-246: the modifier list of a key event, in the order appended.
KeyModifiers(modifier_state) ==
  (IF MaskSet(modifier_state, ShiftMask) THEN <<"shift">> ELSE << >>)
  \o (IF MaskSet(modifier_state, ControlMask) THEN <<"control">> ELSE << >>)
  \o (IF MaskSet(modifier_state, Mod1Mask) THEN <<"alt">> ELSE << >>)
  \o (IF MaskSet(modifier_state, Mod4Mask) THEN <<"meta">> ELSE << >>)

\* Faulty variant: buttons 2 and 3 exchanged.
ButtonName_swapped(button) ==
  CASE button = 1 -> "left"
    [] button = 2 -> "right"
    [] button = 3 -> "middle"
    [] OTHER      -> "other"

\* Lines 260-263.
ButtonName(button) ==
  CASE button = 1 -> "left"
    [] button = 2 -> "middle"
    [] button = 3 -> "right"
    [] OTHER      -> "other"

\* Faulty variant: the vertical directions exchanged.
ScrollDelta_flipped(button) ==
  CASE button = 4 -> [deltaX |-> Double(0),  deltaY |-> Double(-1)]
    [] button = 5 -> [deltaX |-> Double(0),  deltaY |-> Double(1)]
    [] button = 6 -> [deltaX |-> Double(1),  deltaY |-> Double(0)]
    [] button = 7 -> [deltaX |-> Double(-1), deltaY |-> Double(0)]
    [] OTHER      -> [deltaX |-> Double(0),  deltaY |-> Double(0)]

\* Lines 278-283: both deltas start at 0.0 and one is set by the button.
ScrollDelta(button) ==
  CASE button = 4 -> [deltaX |-> Double(0),  deltaY |-> Double(1)]
    [] button = 5 -> [deltaX |-> Double(0),  deltaY |-> Double(-1)]
    [] button = 6 -> [deltaX |-> Double(1),  deltaY |-> Double(0)]
    [] button = 7 -> [deltaX |-> Double(-1), deltaY |-> Double(0)]
    [] OTHER      -> [deltaX |-> Double(0),  deltaY |-> Double(0)]

\* Lines 218-251: a key record.  e holds the timestamp already.
DecodeKeyRecord(r, e, event_type) ==
  LET keycode == r.byte1
      e1 == Put(e, "type",
                IF event_type = KeyPress THEN "keyDown" ELSE "keyUp")
      e2 == Put(e1, "keyCode", keycode)
      e3 == Put(e2, "key", keycode_to_string(XKeycodeToKeysym(keycode)))
      e4 == Put(e3, "modifiers", KeyModifiers(r.byte28))
  IN  Sent(e4)

\* Lines 253-291: a button record.  The event is built as a button event
\* first; for buttons 4..7 the type is then overwritten, the button field
\* removed and the two deltas added.
DecodeButtonRecord(r, e, event_type) ==
  LET button == r.byte1
      e1 == Put(e, "type",
                IF event_type = ButtonPress THEN "mouseDown" ELSE "mouseUp")
      e2 == Put(e1, "button", ButtonName(button))
      e3 == Put(e2, "x", Double(ToInt16(r.word24)))
      e4 == Put(e3, "y", Double(ToInt16(r.word26)))
      s1 == Put(e4, "type", "mouseScroll")
      s2 == Remove(s1, "button")
      s3 == Put(s2, "deltaX", ScrollDelta(button).deltaX)
      s4 == Put(s3, "deltaY", ScrollDelta(button).deltaY)
  IN  Sent(IF button >= 4 /\ button <= 7 THEN s4 ELSE e4)

\* Lines 293-304: a motion record.
DecodeMotionRecord(r, e) ==
  LET e1 == Put(e, "type", "mouseMove")
      e2 == Put(e1, "x", Double(ToInt16(r.word24)))
      e3 == Put(e2, "y", Double(ToInt16(r.word26)))
  IN  Sent(e3)

\* Faulty variant: record_event_callback without its test of the category
\* (lines 200-203).
record_event_callback_decode_anycategory(r) ==
  LET event_type == r.byte0 % 128
      e == Put(EmptyMap, "timestamp", r.real_time \div 1000)
  IN  CASE event_type \in {KeyPress, KeyRelease} ->
             DecodeKeyRecord(r, e, event_type)
        [] event_type \in {ButtonPress, ButtonRelease} ->
             DecodeButtonRecord(r, e, event_type)
        [] event_type = MotionNotify -> DecodeMotionRecord(r, e)
        [] OTHER -> Dropped

\* Lines 199-308: record_event_callback on one XRecordInterceptData.
record_event_callback_decode(r) ==
  IF r.category # XRecordFromServer
  THEN Dropped
  ELSE LET event_type == r.byte0 % 128
           e == Put(EmptyMap, "timestamp", r.real_time \div 1000)
       IN  CASE event_type \in {KeyPress, KeyRelease} ->
                  DecodeKeyRecord(r, e, event_type)
             [] event_type \in {ButtonPress, ButtonRelease} ->
                  DecodeButtonRecord(r, e, event_type)
             [] event_type = MotionNotify -> DecodeMotionRecord(r, e)
             [] OTHER -> Dropped

\* The raw records the server may deliver: category, byte 0 (event type,
\* bit 7 = sent by a client), byte 1 (keycode or button), the 16-bit words
\* at offsets 24 and 26, byte 28, and the clock in microseconds.
XRecords ==
  [kind : {"xrecord"},
   category : {XRecordFromServer, 4},
   byte0 : {KeyPress, KeyRelease, ButtonPress, ButtonRelease, MotionNotify,
            7, 128 + KeyPress},
   byte1 : {0, 1, 2, 3, 4, 5, 6, 7, 8, 10, 36, 38, 49, 65, 96, 133, 135, 248},
   word24 : {0, 120, 65535},
   word26 : {340, 32768},
   byte28 : {0, 1, 2, 4, 8, 64, 77},
   real_time : {1999}]

\* XRecordStartOfData: the category of the record that opens the stream.
XRecordStartOfData == 4
\* EnterNotify: an event type record_event_callback has no case for.
EnterNotify == 7

\* One raw record with the pointer at (120, 340) and no modifier held.
XRecord(category, event_type, detail) ==
  [kind |-> "xrecord", category |-> category, byte0 |-> event_type,
   byte1 |-> detail, word24 |-> 120, word26 |-> 340, byte28 |-> 0,
   real_time |-> 1999]

\* The records the worker is handed in the controller's specifications, one
\* for each way through record_event_callback: a key press (letter a), a
\* pointer motion, a record that is not from the server (its data bytes,
\* which the callback does not look at, are those of a key press), and a
\* record from the server of a type the switch has no case for.
CapturedRecords ==
  {XRecord(XRecordFromServer, KeyPress, 38),
   XRecord(XRecordFromServer, MotionNotify, 0),
   XRecord(XRecordStartOfData, KeyPress, 38),
   XRecord(XRecordFromServer, EnterNotify, 0)}

\* ============================================================== Linux build

\* Line 391: the query connection input_capture_plugin_init opens.
MainDisplay == 1
\* Line 416: the handler object register_with_registrar stores in
\* event_handler.
Handler == 1

LiveCtxs    == {c \in Ids : x_ctxs[c] # "none"}
HeldThreads == {t \in Ids : threads[t] # "none"}
\* A thread that has been created and whose thread function has not returned.
AliveThreads == {t \in Ids : threads[t] \in {"spawned", "enabled", "callback"}}

\* register_with_registrar has returned and the embedder holds a reference
\* to the controller.
Registered ==
  /\ r_pc = "done"
  /\ ref_count = 1

LinuxInit ==
  /\ l_pc = "idle"
  /\ l_call = "none"
  /\ l_reply = NoReply
  /\ l_fail = "none"
  /\ is_capturing = FALSE
  /\ thread_running = FALSE
  /\ record_display = NULL
  /\ record_context = NULL
  /\ record_thread = NULL
  /\ range = FALSE
  /\ x_conns = {}
  /\ x_ctxs = [c \in Ids |-> "none"]
  /\ threads = [t \in Ids |-> "none"]
  /\ t_ctx = [t \in Ids |-> NULL]
  /\ l_events = 0
  /\ display = MainDisplay
  /\ event_handler = Handler
  /\ l_listening = FALSE
  /\ l_sent = FALSE
  /\ l_sent_unheard = FALSE
  /\ t_rec = [t \in Ids |-> NoRaw]
  /\ x_out = << >>
  /\ keysyms = FALSE

LState == <<is_capturing, thread_running, record_display, record_context,
            record_thread>>
LOs    == <<range, x11_record, x_conns, x_ctxs, threads, t_ctx>>
\* The query connection and the event channel side of the controller.
LExt   == <<display, event_handler, l_listening, l_sent, l_sent_unheard>>
\* Xlib's side of the query connection.
LXlib  == <<x_sync, x_out, keysyms>>
\* The registration and the lifetime of the controller object.
LReg   == <<r_pc, ref_count>>

\* ------------------------------------------------- the query connection
\* The X server carries out one request that names a record context:
\* "disable" ends an enabled context's recording, "free" destroys the
\* context (a request that names no context changes nothing).
XServerRequest(ctxs, rq) ==
  [c \in Ids |->
     IF c # rq.ctx THEN ctxs[c]
     ELSE IF rq.req = "disable"
          THEN (IF ctxs[c] = "enabled" THEN "created" ELSE ctxs[c])
          ELSE "none"]

\* The server's contexts once it has carried out `reqs` in order.
RECURSIVE XFlushed(_, _)
XFlushed(ctxs, reqs) ==
  IF reqs = << >> THEN ctxs
  ELSE XFlushed(XServerRequest(ctxs, Head(reqs)), Tail(reqs))

\* Lines 170-171: XRecordDisableContext / XRecordFreeContext on
\* self->display.  Neither request has a reply: Xlib appends it to the
\* connection's output buffer and returns.  The source flushes nowhere
\* (no XFlush, no XSync), so the request is written only when a later call
\* on the connection waits for a reply, or at once when the connection is
\* synchronous.
XIssue(rq) ==
  IF x_sync
  THEN /\ x_ctxs' = XFlushed(x_ctxs, Append(x_out, rq))
       /\ x_out' = << >>
  ELSE /\ x_out' = Append(x_out, rq)
       /\ UNCHANGED x_ctxs

\* A call on self->display that waits for the server's answer
\* (XRecordQueryVersion at lines 65 and 75, the keyboard mapping
\* XKeycodeToKeysym loads at line 228, the sync of XCloseDisplay at line
\* 380): the output buffer is written first.
XRoundTrip ==
  /\ x_ctxs' = XFlushed(x_ctxs, x_out)
  /\ x_out' = << >>

\* method_call_cb: dispatch on the method name.
method_call_cb(m) ==
  /\ platform = "linux"
  /\ l_pc = "idle"
  /\ l_call' = m
  /\ l_fail' = "none"
  /\ l_pc' = CASE m = "startCapture" -> "start_check"
               [] m = "stopCapture"  -> "stop_check"
               [] OTHER              -> "respond"
  /\ UNCHANGED <<platform, decodeVars, winVars, LXlib, LReg, t_rec, LExt, l_reply, LState, LOs, l_events>>

\* Lines 65 and 75: XRecordQueryVersion(self->display, ...) is true iff the
\* server has the RECORD extension.
XRecordQueryVersion == x11_record

\* The value method_call_cb answers with (for checkPermissions: the value
\* stored under the key "x11_record" of the answered map).
method_result ==
  CASE l_call = "startCapture"       -> is_capturing
    [] l_call = "stopCapture"        -> TRUE
    [] l_call = "checkPermissions"   -> XRecordQueryVersion
    [] l_call = "requestPermissions" -> XRecordQueryVersion
    [] OTHER                         -> is_capturing

method_respond ==
  /\ platform = "linux"
  /\ l_pc = "respond"
  /\ l_reply' = [method |-> l_call, value |-> method_result,
                 prev |-> l_reply.method, pvalue |-> l_reply.value]
  /\ l_pc' = "idle"
  /\ IF l_call \in {"checkPermissions", "requestPermissions"}
     THEN XRoundTrip
     ELSE UNCHANGED <<x_ctxs, x_out>>
  /\ UNCHANGED <<platform, decodeVars, winVars, x_sync, keysyms, LReg, t_rec,
                 LExt, l_call, l_fail, LState, range, x11_record, x_conns,
                 threads, t_ctx, l_events>>

\* Lines 86-91: listen_cb: a consumer subscribed.  The callback stores
\* nothing in the controller.
listen_cb ==
  /\ platform = "linux"
  /\ l_pc = "idle"
  /\ l_listening' = TRUE
  /\ UNCHANGED <<platform, decodeVars, winVars, LXlib, LReg, t_rec, l_pc, l_call, l_reply, l_fail,
                 LState, LOs, l_events, display, event_handler, l_sent,
                 l_sent_unheard>>

\* Lines 94-99: cancel_cb: the consumer unsubscribed.  The callback stores
\* nothing in the controller.
cancel_cb ==
  /\ platform = "linux"
  /\ l_pc = "idle"
  /\ l_listening' = FALSE
  /\ UNCHANGED <<platform, decodeVars, winVars, LXlib, LReg, t_rec, l_pc, l_call, l_reply, l_fail,
                 LState, LOs, l_events, display, event_handler, l_sent,
                 l_sent_unheard>>

\* ---------------------------------------------------------- start_capture
\* Faulty variant: start_capture without its "already capturing" guard.
AlreadyCapturing_never == FALSE

\* Line 103: the guard that makes Start idempotent.
AlreadyCapturing == is_capturing

start_capture_check ==
  /\ platform = "linux"
  /\ l_pc = "start_check"
  /\ l_pc' = IF AlreadyCapturing THEN "respond" ELSE "start_open"
  /\ UNCHANGED <<platform, decodeVars, winVars, LXlib, LReg, t_rec, LExt, l_call, l_reply, l_fail, LState, LOs, l_events>>

\* Lines 109-113: XOpenDisplay(nullptr) for the record connection.
start_capture_XOpenDisplay ==
  /\ platform = "linux"
  /\ l_pc = "start_open"
  /\ l_events' = 0
  /\ \/ /\ FreeId(x_conns) # NULL
        /\ record_display' = FreeId(x_conns)
        /\ x_conns' = x_conns \cup {FreeId(x_conns)}
        /\ l_pc' = "start_range"
        /\ UNCHANGED l_fail
     \/ /\ record_display' = NULL
        /\ l_fail' = "open"
        /\ l_pc' = "respond"
        /\ UNCHANGED x_conns
  /\ UNCHANGED <<platform, decodeVars, winVars, LXlib, LReg, t_rec, LExt, l_call, l_reply, is_capturing, thread_running,
                 record_context, record_thread, range, x11_record, x_ctxs,
                 threads, t_ctx>>

\* Lines 117-123: XRecordAllocRange; on failure close the connection.
start_capture_XRecordAllocRange ==
  /\ platform = "linux"
  /\ l_pc = "start_range"
  /\ \/ /\ range' = TRUE
        /\ l_pc' = "start_create"
        /\ UNCHANGED <<l_fail, x_conns, record_display>>
     \/ /\ x_conns' = x_conns \ {record_display}
        /\ record_display' = NULL
        /\ l_fail' = "range"
        /\ l_pc' = "respond"
        /\ UNCHANGED range
  /\ UNCHANGED <<platform, decodeVars, winVars, LXlib, LReg, t_rec, LExt, l_call, l_reply, is_capturing, thread_running,
                 record_context, record_thread, x11_record, x_ctxs, threads,
                 t_ctx, l_events>>

\* Lines 130-135: XRecordCreateContext, then XFree(range), then the test of
\* the returned XID.  The call returns 0 when the RECORD extension is absent
\* (or the server has no XID left).
start_capture_XRecordCreateContext ==
  /\ platform = "linux"
  /\ l_pc = "start_create"
  /\ range' = FALSE
  /\ \/ /\ x11_record
        /\ FreeId(LiveCtxs) # NULL
        /\ record_context' = FreeId(LiveCtxs)
        /\ x_ctxs' = [x_ctxs EXCEPT ![FreeId(LiveCtxs)] = "created"]
        /\ l_pc' = "start_thread"
        /\ UNCHANGED l_fail
     \/ /\ record_context' = NULL
        /\ l_fail' = "create"
        /\ l_pc' = "start_create_fail"
        /\ UNCHANGED x_ctxs
  /\ UNCHANGED <<platform, decodeVars, winVars, LXlib, LReg, t_rec, LExt, l_call, l_reply, is_capturing, thread_running,
                 record_display, record_thread, x11_record, x_conns, threads,
                 t_ctx, l_events>>

\* Lines 136-139: context creation failed: close the connection.
start_capture_create_failed ==
  /\ platform = "linux"
  /\ l_pc = "start_create_fail"
  /\ x_conns' = x_conns \ {record_display}
  /\ record_display' = NULL
  /\ l_pc' = "respond"
  /\ UNCHANGED <<platform, decodeVars, winVars, LXlib, LReg, t_rec, LExt, l_call, l_reply, l_fail, is_capturing,
                 thread_running, record_context, record_thread, range,
                 x11_record, x_ctxs, threads, t_ctx, l_events>>

\* Lines 143-144: pthread_create(&self->record_thread, ...).
start_capture_pthread_create ==
  /\ platform = "linux"
  /\ l_pc = "start_thread"
  /\ \/ /\ FreeId(HeldThreads) # NULL
        /\ record_thread' = FreeId(HeldThreads)
        /\ threads' = [threads EXCEPT ![FreeId(HeldThreads)] = "spawned"]
        /\ l_pc' = "start_mark"
        /\ UNCHANGED l_fail
     \/ /\ l_fail' = "thread"
        /\ l_pc' = "start_thread_fail_ctx"
        /\ UNCHANGED <<record_thread, threads>>
  /\ UNCHANGED <<platform, decodeVars, winVars, LXlib, LReg, t_rec, LExt, l_call, l_reply, is_capturing, thread_running,
                 record_display, record_context, range, x11_record, x_conns,
                 x_ctxs, t_ctx, l_events>>

\* Line 146: XRecordFreeContext(self->record_display, self->record_context).
start_capture_thread_failed_free ==
  /\ platform = "linux"
  /\ l_pc = "start_thread_fail_ctx"
  /\ x_ctxs' = [c \in Ids |-> IF c = record_context THEN "none" ELSE x_ctxs[c]]
  /\ l_pc' = "start_thread_fail_conn"
  /\ UNCHANGED <<platform, decodeVars, winVars, LXlib, LReg, t_rec, LExt, l_call, l_reply, l_fail, LState, range, x11_record,
                 x_conns, threads, t_ctx, l_events>>

\* Faulty variant: the rollback after a failed pthread_create clears the fields but
\* forgets XCloseDisplay.
start_capture_thread_failed_leak ==
  /\ platform = "linux"
  /\ l_pc = "start_thread_fail_conn"
  /\ record_display' = NULL
  /\ record_context' = NULL
  /\ l_pc' = "respond"
  /\ UNCHANGED <<platform, decodeVars, winVars, LXlib, LReg, t_rec, LExt, l_call, l_reply, l_fail, is_capturing,
                 thread_running, record_thread, range, x11_record, x_conns,
                 x_ctxs, threads, t_ctx, l_events>>

\* Lines 147-150: XCloseDisplay, then both fields back to their empty value.
start_capture_thread_failed_close ==
  /\ platform = "linux"
  /\ l_pc = "start_thread_fail_conn"
  /\ x_conns' = x_conns \ {record_display}
  /\ record_display' = NULL
  /\ record_context' = NULL
  /\ l_pc' = "respond"
  /\ UNCHANGED <<platform, decodeVars, winVars, LXlib, LReg, t_rec, LExt, l_call, l_reply, l_fail, is_capturing,
                 thread_running, record_thread, range, x11_record, x_ctxs,
                 threads, t_ctx, l_events>>

\* Lines 152-153.
start_capture_mark ==
  /\ platform = "linux"
  /\ l_pc = "start_mark"
  /\ is_capturing' = TRUE
  /\ thread_running' = TRUE
  /\ l_pc' = "respond"
  /\ UNCHANGED <<platform, decodeVars, winVars, LXlib, LReg, t_rec, LExt, l_call, l_reply, l_fail, record_display,
                 record_context, record_thread, LOs, l_events>>

\* ----------------------------------------------------------- stop_capture
\* Faulty variant: stop_capture without its "not capturing" guard.
NotCapturing_never == FALSE

\* Line 160: the guard that makes Stop a no-op when not capturing.
NotCapturing == ~is_capturing

\* Where stop_capture returns to: method_call_cb or dispose.
stop_capture_return ==
  IF l_call = "dispose" THEN "dispose_close" ELSE "respond"

stop_capture_check ==
  /\ platform = "linux"
  /\ l_pc = "stop_check"
  /\ l_pc' = IF NotCapturing THEN stop_capture_return ELSE "stop_flags"
  /\ UNCHANGED <<platform, decodeVars, winVars, LXlib, LReg, t_rec, LExt, l_call, l_reply, l_fail, LState, LOs, l_events>>

\* Lines 165-169: clear both flags, then test record_context.
stop_capture_flags ==
  /\ platform = "linux"
  /\ l_pc = "stop_flags"
  /\ is_capturing' = FALSE
  /\ thread_running' = FALSE
  /\ l_pc' = IF record_context # NULL THEN "stop_disable" ELSE "stop_join"
  /\ UNCHANGED <<platform, decodeVars, winVars, LXlib, LReg, t_rec, LExt, l_call, l_reply, l_fail, record_display,
                 record_context, record_thread, LOs, l_events>>

\* Line 170: XRecordDisableContext(self->display, self->record_context).
stop_capture_XRecordDisableContext ==
  /\ platform = "linux"
  /\ l_pc = "stop_disable"
  /\ XIssue([req |-> "disable", ctx |-> record_context])
  /\ l_pc' = "stop_free"
  /\ UNCHANGED <<platform, decodeVars, winVars, x_sync, keysyms, LReg, t_rec,
                 LExt, l_call, l_reply, l_fail, LState, range, x11_record,
                 x_conns, threads, t_ctx, l_events>>

\* Lines 171-172: XRecordFreeContext(self->display, ...); record_context = 0.
stop_capture_XRecordFreeContext ==
  /\ platform = "linux"
  /\ l_pc = "stop_free"
  /\ XIssue([req |-> "free", ctx |-> record_context])
  /\ record_context' = NULL
  /\ l_pc' = "stop_join"
  /\ UNCHANGED <<platform, decodeVars, winVars, x_sync, keysyms, LReg, t_rec,
                 LExt, l_call, l_reply, l_fail, is_capturing,
                 thread_running, record_display, record_thread, range,
                 x11_record, x_conns, threads, t_ctx, l_events>>

\* Faulty variant: stop_capture does not wait for the worker (a detach, or a join
\* that was left out).
JoinReturns_nowait == TRUE

\* pthread_join returns once the thread function of record_thread has
\* returned (it returns at once with an error for a thread id that names no
\* joinable thread).
JoinReturns ==
  IF record_thread = NULL THEN TRUE
  ELSE threads[record_thread] \in {"exited", "none"}

\* Line 176: pthread_join(self->record_thread, nullptr).
stop_capture_pthread_join ==
  /\ platform = "linux"
  /\ l_pc = "stop_join"
  /\ JoinReturns
  /\ threads' = [t \in Ids |-> IF t = record_thread /\ threads[t] = "exited"
                                THEN "none" ELSE threads[t]]
  /\ l_pc' = "stop_close"
  /\ UNCHANGED <<platform, decodeVars, winVars, LXlib, LReg, t_rec, LExt, l_call, l_reply, l_fail, LState, range, x11_record,
                 x_conns, x_ctxs, t_ctx, l_events>>

\* Lines 179-182: close the record connection.
stop_capture_XCloseDisplay ==
  /\ platform = "linux"
  /\ l_pc = "stop_close"
  /\ x_conns' = x_conns \ {record_display}
  /\ record_display' = NULL
  /\ l_pc' = stop_capture_return
  /\ UNCHANGED <<platform, decodeVars, winVars, LXlib, LReg, t_rec, LExt, l_call, l_reply, l_fail, is_capturing,
                 thread_running, record_context, record_thread, range,
                 x11_record, x_ctxs, threads, t_ctx, l_events>>

\* ------------------------------------------------------------------ dispose
\* Faulty variant: dispose closes the query connection without stopping a
\* running capture.
dispose_begin_nostop ==
  /\ platform = "linux"
  /\ l_pc = "idle"
  /\ l_call' = "dispose"
  /\ l_fail' = "none"
  /\ l_pc' = "dispose_close"
  /\ UNCHANGED <<platform, decodeVars, winVars, LXlib, LReg, t_rec, LExt, l_reply, LState, LOs,
                 l_events>>

\* Lines 369-375: input_capture_plugin_dispose begins (the last reference
\* to the controller is dropped); it stops a running capture first.
dispose_begin ==
  /\ platform = "linux"
  /\ l_pc = "idle"
  /\ l_call' = "dispose"
  /\ l_fail' = "none"
  /\ l_pc' = IF is_capturing THEN "stop_check" ELSE "dispose_close"
  /\ UNCHANGED <<platform, decodeVars, winVars, LXlib, LReg, t_rec, LExt, l_reply, LState, LOs,
                 l_events>>

\* Lines 378-383: close the query connection; the object is gone.
dispose_XCloseDisplay ==
  /\ platform = "linux"
  /\ l_pc = "dispose_close"
  /\ XRoundTrip
  /\ display' = NULL
  /\ l_pc' = "disposed"
  /\ UNCHANGED <<platform, decodeVars, winVars, x_sync, keysyms, LReg, t_rec,
                 l_call, l_reply, l_fail, LState, range, x11_record, x_conns,
                 threads, t_ctx, l_events, event_handler, l_listening, l_sent,
                 l_sent_unheard>>

\* ------------------------------------------------------ the worker thread
\* Lines 188-193: the worker calls XRecordEnableContext with the fields as
\* they are when it runs.  The call blocks while the context is enabled and
\* fails at once when the XID names no context that can be enabled.
record_thread_func_enable(t) ==
  /\ platform = "linux"
  /\ threads[t] = "spawned"
  /\ IF /\ record_context # NULL
        /\ record_display \in x_conns
        /\ x_ctxs[record_context] = "created"
     THEN /\ x_ctxs' = [x_ctxs EXCEPT ![record_context] = "enabled"]
          /\ threads' = [threads EXCEPT ![t] = "enabled"]
          /\ t_ctx' = [t_ctx EXCEPT ![t] = record_context]
     ELSE /\ threads' = [threads EXCEPT ![t] = "exited"]
          /\ UNCHANGED <<x_ctxs, t_ctx>>
  /\ UNCHANGED <<platform, decodeVars, winVars, LXlib, LReg, t_rec, LExt, l_pc, l_call, l_reply, l_fail, LState, range,
                 x11_record, x_conns, l_events>>

\* Lines 199-308: the server delivers one raw record; record_event_callback
\* runs on the worker, inside XRecordEnableContext.
record_event_callback_begin(t) ==
  /\ platform = "linux"
  /\ threads[t] = "enabled"
  /\ x_ctxs[t_ctx[t]] = "enabled"
  /\ l_events < MaxEvents
  /\ threads' = [threads EXCEPT ![t] = "callback"]
  /\ l_events' = l_events + 1
  /\ l_sent' = FALSE
  /\ \E r \in CapturedRecords : t_rec' = [t_rec EXCEPT ![t] = r]
  /\ UNCHANGED <<platform, decodeVars, winVars, LXlib, LReg, l_pc, l_call, l_reply, l_fail,
                 LState, range, x11_record, x_conns, x_ctxs, t_ctx, display,
                 event_handler, l_listening, l_sent_unheard>>

\* Faulty variant: the event is kept for a later hand-over instead of being
\* sent from the callback.
send_event_to_dart_deferred == FALSE

\* Lines 311-315: send_event_to_dart calls fl_event_channel_send iff
\* self->event_handler is set.
send_event_to_dart == event_handler # NULL

\* Line 228: the callback of a key record from the server calls
\* XKeycodeToKeysym(self->display, ...).
LooksUpKey(r) ==
  /\ r.kind = "xrecord"
  /\ r.category = XRecordFromServer
  /\ r.byte0 % 128 \in {KeyPress, KeyRelease}

\* Lines 200-308: the record is decoded; when it decodes to an event the
\* event goes to send_event_to_dart; the data is freed and the callback
\* returns into XRecordEnableContext.  The first XKeycodeToKeysym on the
\* query connection makes Xlib fetch the keyboard mapping from the server.
record_event_callback_end(t) ==
  /\ platform = "linux"
  /\ threads[t] = "callback"
  /\ threads' = [threads EXCEPT ![t] = "enabled"]
  /\ l_sent' = (record_event_callback_decode(t_rec[t]).sent
                  /\ send_event_to_dart)
  /\ l_sent_unheard' = (l_sent_unheard \/ (l_sent' /\ ~l_listening))
  /\ t_rec' = [t_rec EXCEPT ![t] = NoRaw]
  /\ IF LooksUpKey(t_rec[t]) /\ ~keysyms
     THEN XRoundTrip /\ keysyms' = TRUE
     ELSE UNCHANGED <<x_ctxs, x_out, keysyms>>
  /\ UNCHANGED <<platform, decodeVars, winVars, x_sync, LReg, l_pc, l_call,
                 l_reply, l_fail, LState, range, x11_record, x_conns, t_ctx,
                 l_events, display, event_handler, l_listening>>

\* Lines 192-195: XRecordEnableContext returns once its context is no longer
\* enabled (disabled or freed); the thread function returns.
record_thread_func_return(t) ==
  /\ platform = "linux"
  /\ threads[t] = "enabled"
  /\ x_ctxs[t_ctx[t]] # "enabled"
  /\ threads' = [threads EXCEPT ![t] = "exited"]
  /\ t_ctx' = [t_ctx EXCEPT ![t] = NULL]
  /\ UNCHANGED <<platform, decodeVars, winVars, LXlib, LReg, t_rec, LExt, l_pc, l_call, l_reply, l_fail, LState, range,
                 x11_record, x_conns, x_ctxs, l_events>>

\* ------------------------------------------- two threads, one connection
\* The platform thread's next statement is an Xlib call on self->display:
\* XRecordQueryVersion (lines 65, 75), XRecordDisableContext (170),
\* XRecordFreeContext (171), XCloseDisplay (380).
MainUsesDisplay ==
  \/ l_pc \in {"stop_disable", "stop_free", "dispose_close"}
  \/ /\ l_pc = "respond"
     /\ l_call \in {"checkPermissions", "requestPermissions"}

\* The worker t is inside the callback of a key record: its next statement
\* is XKeycodeToKeysym(self->display, ...) (line 228).
WorkerUsesDisplay(t) ==
  /\ threads[t] = "callback"
  /\ LooksUpKey(t_rec[t])

\* The platform thread's next statement is an Xlib call on
\* self->record_display: XRecordCreateContext (130), the XCloseDisplay of a
\* rollback (121, 137, 147) or of Stop (180), XRecordFreeContext (146).
MainUsesRecordDisplay ==
  /\ l_pc \in {"start_create", "start_create_fail", "start_thread_fail_ctx",
               "start_thread_fail_conn", "stop_close"}
  /\ record_display # NULL

\* The worker t is in, or about to enter, XRecordEnableContext on
\* self->record_display (line 192).
WorkerUsesRecordDisplay(t) ==
  threads[t] \in {"spawned", "enabled", "callback"}

\* The process is ended by a fault (a signal, or Xlib's fatal error handler):
\* its threads and its X connections, and with the connections the record
\* contexts, are gone; no statement of the program runs any more.
ProcessEnds ==
  /\ l_pc' = "crashed"
  /\ threads' = [t \in Ids |-> "none"]
  /\ t_ctx' = [t \in Ids |-> NULL]
  /\ t_rec' = [t \in Ids |-> NoRaw]
  /\ x_conns' = {}
  /\ x_ctxs' = [c \in Ids |-> "none"]
  /\ x_out' = << >>
  /\ UNCHANGED <<platform, decodeVars, winVars, x_sync, keysyms, LReg, LExt,
                 l_call, l_reply, l_fail, LState, range, x11_record,
                 l_events>>

\* The source never calls XInitThreads and takes no lock around its Xlib
\* calls: when both threads are in Xlib on self->display the connection's
\* request buffer and sequence numbers are written by both.  Besides the
\* outcomes in which the two calls happen to run one after the other (the
\* steps above), Xlib's I/O error handler may end the process: its threads
\* and its connections, and with them the record contexts, are gone.
XlibConcurrentUse ==
  /\ platform = "linux"
  /\ MainUsesDisplay
  /\ \E t \in Ids : WorkerUsesDisplay(t)
  /\ ProcessEnds

LinuxNext ==
  \/ \E m \in Methods : method_call_cb(m)
  \/ method_respond
  \/ listen_cb
  \/ cancel_cb
  \/ start_capture_check
  \/ start_capture_XOpenDisplay
  \/ start_capture_XRecordAllocRange
  \/ start_capture_XRecordCreateContext
  \/ start_capture_create_failed
  \/ start_capture_pthread_create
  \/ start_capture_thread_failed_free
  \/ start_capture_thread_failed_close
  \/ start_capture_mark
  \/ stop_capture_check
  \/ stop_capture_flags
  \/ stop_capture_XRecordDisableContext
  \/ stop_capture_XRecordFreeContext
  \/ stop_capture_pthread_join
  \/ stop_capture_XCloseDisplay
  \/ dispose_begin
  \/ dispose_XCloseDisplay
  \/ \E t \in Ids : record_thread_func_enable(t)
  \/ \E t \in Ids : record_event_callback_begin(t)
  \/ \E t \in Ids : record_event_callback_end(t)
  \/ \E t \in Ids : record_thread_func_return(t)
  \/ XlibConcurrentUse

\* ============================================================ Windows build

\* `this`: the one controller object RegisterWithRegistrar creates.
THIS == 1
\* nCode of an invocation the hook procedure has to process.
HC_ACTION == 0
\* Line 277: the keyboard hook's "consumed" return value.
KeyboardConsumed == -1
\* Line 356: the mouse hook's "consumed" return value.
MouseConsumed == 1
\* Lines 280, 350, 359: the value CallNextHookEx hands back when nothing
\* further down the chain consumes the event.
NextHookResult == 0

KeyboardMsgs == {"WM_KEYDOWN", "WM_KEYUP"}
\* Lines 291-346: the wParam values MouseHookProc's switch has a case for.
RecognizedMouseMsgs ==
  {"WM_MOUSEMOVE", "WM_LBUTTONDOWN", "WM_LBUTTONUP", "WM_RBUTTONDOWN",
   "WM_RBUTTONUP", "WM_MBUTTONDOWN", "WM_MBUTTONUP", "WM_MOUSEWHEEL",
   "WM_MOUSEHWHEEL"}
\* WM_XBUTTONDOWN stands for the messages the switch has no case for.
MouseMsgs == RecognizedMouseMsgs \cup {"WM_XBUTTONDOWN"}

WCall == <<w_call, w_reply, w_fail, w_ret>>
WObj  == <<life, instance_, keyboard_hook_, mouse_hook_, is_capturing_,
           event_sink_>>
WOs   == <<os_kbd, os_mouse>>
WCb   == <<cb_pc, cb_kind, cb_msg, cb_nCode, cb_ret, cb_fwd, cb_sent,
           cb_deref>>
\* The hook facility, the subscribed consumer and the last delivery target.
WExt  == <<hooks_available, w_listener, cb_to>>

\* Lines 102-107: the state the constructor leaves.
WinInit ==
  /\ w_pc = "idle"
  /\ w_call = "none"
  /\ w_reply = NoReply
  /\ w_fail = "none"
  /\ w_ret = FALSE
  /\ life = "alive"
  /\ instance_ = THIS
  /\ keyboard_hook_ = NULL
  /\ mouse_hook_ = NULL
  /\ is_capturing_ = FALSE
  /\ event_sink_ = NULL
  /\ os_kbd = {}
  /\ os_mouse = {}
  /\ cb_pc = "none"
  /\ cb_kind = "none"
  /\ cb_msg = "none"
  /\ cb_nCode = HC_ACTION
  /\ cb_ret = NextHookResult
  /\ cb_fwd = FALSE
  /\ cb_sent = FALSE
  /\ cb_deref = FALSE
  /\ w_events = 0
  /\ w_listener = NULL
  /\ cb_to = NULL

\* The process executes Windows code (it has not crashed).
WinProcess == platform = "windows" /\ cb_pc # "crashed"

\* Lines 147-168: HandleMethodCall dispatches on the method name.
HandleMethodCall(m) ==
  /\ WinProcess
  /\ w_pc = "idle"
  /\ life = "alive"
  /\ w_call' = m
  /\ w_fail' = "none"
  /\ w_pc' = CASE m = "startCapture" -> "start_check"
               [] m = "stopCapture"  -> "stop_check"
               [] OTHER              -> "respond"
  /\ UNCHANGED <<platform, decodeVars, linuxVars, WExt, w_reply, w_ret, WObj, WOs, WCb, w_events>>

\* The value HandleMethodCall answers with.
\* Lines 221-227: CheckPermissions answers a map whose key "hooks" is true.
CheckPermissions == TRUE

\* Lines 229-232.
RequestPermissions == TRUE

\* The value HandleMethodCall answers with (for checkPermissions: the value
\* stored under the key "hooks" of the answered map).
HandleMethodCall_result ==
  CASE w_call = "startCapture"       -> w_ret
    [] w_call = "stopCapture"        -> TRUE
    [] w_call = "checkPermissions"   -> CheckPermissions
    [] w_call = "requestPermissions" -> RequestPermissions
    [] OTHER                         -> is_capturing_

HandleMethodCall_respond ==
  /\ WinProcess
  /\ w_pc = "respond"
  /\ w_reply' = [method |-> w_call, value |-> HandleMethodCall_result,
                 prev |-> w_reply.method, pvalue |-> w_reply.value]
  /\ w_pc' = "idle"
  /\ UNCHANGED <<platform, decodeVars, linuxVars, WExt, w_call, w_fail, w_ret, WObj, WOs, WCb,
                 w_events>>

\* Lines 86-92: OnListenInternal stores the new sink.
OnListenInternal(s) ==
  /\ WinProcess
  /\ w_pc = "idle"
  /\ life = "alive"
  /\ event_sink_' = s
  /\ w_listener' = s
  /\ UNCHANGED <<platform, decodeVars, linuxVars, w_pc, WCall, life, instance_,
                 keyboard_hook_, mouse_hook_, is_capturing_, WOs, WCb, w_events,
                 hooks_available, cb_to>>

\* Faulty variant: unsubscribing also marks the capture as stopped.
OnCancelInternal_stops ==
  /\ WinProcess
  /\ w_pc = "idle"
  /\ life = "alive"
  /\ event_sink_' = NULL
  /\ w_listener' = NULL
  /\ is_capturing_' = FALSE
  /\ UNCHANGED <<platform, decodeVars, linuxVars, w_pc, WCall, life, instance_,
                 keyboard_hook_, mouse_hook_, WOs, WCb, w_events,
                 hooks_available, cb_to>>

\* Lines 94-99: OnCancelInternal drops the sink.
OnCancelInternal ==
  /\ WinProcess
  /\ w_pc = "idle"
  /\ life = "alive"
  /\ event_sink_' = NULL
  /\ w_listener' = NULL
  /\ UNCHANGED <<platform, decodeVars, linuxVars, w_pc, WCall, life, instance_,
                 keyboard_hook_, mouse_hook_, is_capturing_, WOs, WCb, w_events,
                 hooks_available, cb_to>>

\* ----------------------------------------------------------- StartCapture
\* Faulty variant: StartCapture without its "already capturing" guard.
StartCapture_already_never == FALSE

\* Line 171: the guard that makes StartCapture idempotent.
StartCapture_already == is_capturing_

StartCapture_check ==
  /\ WinProcess
  /\ w_pc = "start_check"
  /\ IF StartCapture_already
     THEN w_ret' = TRUE /\ w_pc' = "respond"
     ELSE w_pc' = "start_kbd" /\ UNCHANGED w_ret
  /\ UNCHANGED <<platform, decodeVars, linuxVars, WExt, w_call, w_reply, w_fail, WObj, WOs, WCb,
                 w_events>>

\* Lines 176-184: SetWindowsHookEx(WH_KEYBOARD_LL, ...).
StartCapture_keyboard ==
  /\ WinProcess
  /\ w_pc = "start_kbd"
  /\ w_events' = 0
  /\ \/ /\ hooks_available
        /\ FreeId(os_kbd) # NULL
        /\ keyboard_hook_' = FreeId(os_kbd)
        /\ os_kbd' = os_kbd \cup {FreeId(os_kbd)}
        /\ w_pc' = "start_mouse"
        /\ UNCHANGED <<w_fail, w_ret>>
     \/ /\ keyboard_hook_' = NULL
        /\ w_fail' = "keyboard"
        /\ w_ret' = FALSE
        /\ w_pc' = "respond"
        /\ UNCHANGED os_kbd
  /\ UNCHANGED <<platform, decodeVars, linuxVars, WExt, w_call, w_reply, life, instance_,
                 mouse_hook_, is_capturing_, event_sink_, os_mouse, WCb>>

\* Lines 187-193: SetWindowsHookEx(WH_MOUSE_LL, ...).
StartCapture_mouse ==
  /\ WinProcess
  /\ w_pc = "start_mouse"
  /\ \/ /\ hooks_available
        /\ FreeId(os_mouse) # NULL
        /\ mouse_hook_' = FreeId(os_mouse)
        /\ os_mouse' = os_mouse \cup {FreeId(os_mouse)}
        /\ w_pc' = "start_mark"
        /\ UNCHANGED w_fail
     \/ /\ mouse_hook_' = NULL
        /\ w_fail' = "mouse"
        /\ w_pc' = "start_mouse_fail"
        /\ UNCHANGED os_mouse
  /\ UNCHANGED <<platform, decodeVars, linuxVars, WExt, w_call, w_reply, w_ret, life, instance_,
                 keyboard_hook_, is_capturing_, event_sink_, os_kbd, WCb,
                 w_events>>

\* Faulty variant: the failed mouse hook returns false without removing the
\* keyboard hook.
StartCapture_mouse_failed_norollback ==
  /\ WinProcess
  /\ w_pc = "start_mouse_fail"
  /\ w_ret' = FALSE
  /\ w_pc' = "respond"
  /\ UNCHANGED <<platform, decodeVars, linuxVars, WExt, w_call, w_reply, w_fail, WObj, WOs, WCb,
                 w_events>>

\* Lines 194-196: roll the keyboard hook back.
StartCapture_mouse_failed ==
  /\ WinProcess
  /\ w_pc = "start_mouse_fail"
  /\ os_kbd' = os_kbd \ {keyboard_hook_}
  /\ keyboard_hook_' = NULL
  /\ w_ret' = FALSE
  /\ w_pc' = "respond"
  /\ UNCHANGED <<platform, decodeVars, linuxVars, WExt, w_call, w_reply, w_fail, life, instance_,
                 mouse_hook_, is_capturing_, event_sink_, os_mouse, WCb,
                 w_events>>

\* Lines 199-200.
StartCapture_mark ==
  /\ WinProcess
  /\ w_pc = "start_mark"
  /\ is_capturing_' = TRUE
  /\ w_ret' = TRUE
  /\ w_pc' = "respond"
  /\ UNCHANGED <<platform, decodeVars, linuxVars, WExt, w_call, w_reply, w_fail, life, instance_,
                 keyboard_hook_, mouse_hook_, event_sink_, WOs, WCb, w_events>>

\* ------------------------------------------------------------ StopCapture
\* Where StopCapture returns to: the method handler or the destructor.
StopCapture_return ==
  IF w_call = "~InputCapturePlugin" THEN "dtor_clear" ELSE "respond"

\* Line 204: the guard that makes StopCapture a no-op when not capturing.
StopCapture_idle == ~is_capturing_

StopCapture_check ==
  /\ WinProcess
  /\ w_pc = "stop_check"
  /\ w_pc' = IF StopCapture_idle THEN StopCapture_return ELSE "stop_kbd"
  /\ UNCHANGED <<platform, decodeVars, linuxVars, WExt, WCall, WObj, WOs, WCb, w_events>>

\* Lines 208-211.
StopCapture_keyboard ==
  /\ WinProcess
  /\ w_pc = "stop_kbd"
  /\ os_kbd' = os_kbd \ {keyboard_hook_}
  /\ keyboard_hook_' = NULL
  /\ w_pc' = "stop_mouse"
  /\ UNCHANGED <<platform, decodeVars, linuxVars, WExt, WCall, life, instance_, mouse_hook_,
                 is_capturing_, event_sink_, os_mouse, WCb, w_events>>

\* Lines 213-216.
StopCapture_mouse ==
  /\ WinProcess
  /\ w_pc = "stop_mouse"
  /\ os_mouse' = os_mouse \ {mouse_hook_}
  /\ mouse_hook_' = NULL
  /\ w_pc' = "stop_mark"
  /\ UNCHANGED <<platform, decodeVars, linuxVars, WExt, WCall, life, instance_, keyboard_hook_,
                 is_capturing_, event_sink_, os_kbd, WCb, w_events>>

\* Line 218.
StopCapture_mark ==
  /\ WinProcess
  /\ w_pc = "stop_mark"
  /\ is_capturing_' = FALSE
  /\ w_pc' = StopCapture_return
  /\ UNCHANGED <<platform, decodeVars, linuxVars, WExt, WCall, life, instance_, keyboard_hook_,
                 mouse_hook_, event_sink_, WOs, WCb, w_events>>

\* ------------------------------------------------------------- destructor
\* Lines 109-112: ~InputCapturePlugin begins (the registrar destroys the
\* plugin); it stops a running capture first.
Destructor_begin ==
  /\ WinProcess
  /\ w_pc = "idle"
  /\ life = "alive"
  /\ life' = "destructing"
  /\ w_call' = "~InputCapturePlugin"
  /\ w_pc' = IF is_capturing_ THEN "stop_check" ELSE "dtor_clear"
  /\ UNCHANGED <<platform, decodeVars, linuxVars, WExt, w_reply, w_fail, w_ret, instance_,
                 keyboard_hook_, mouse_hook_, is_capturing_, event_sink_, WOs,
                 WCb, w_events>>

\* Line 113: instance_ = nullptr.
Destructor_clear ==
  /\ WinProcess
  /\ w_pc = "dtor_clear"
  /\ instance_' = NULL
  /\ w_pc' = "dtor_members"
  /\ UNCHANGED <<platform, decodeVars, linuxVars, WExt, WCall, life, keyboard_hook_, mouse_hook_,
                 is_capturing_, event_sink_, WOs, WCb, w_events>>

\* Line 114 and src/windows/runner/input_capture_plugin.h:62-64: after the
\* destructor body the members (event_sink_ among them) are destroyed and
\* the object's storage is released.
Destructor_members ==
  /\ WinProcess
  /\ w_pc = "dtor_members"
  /\ event_sink_' = NULL
  /\ life' = "destroyed"
  /\ w_pc' = "gone"
  /\ UNCHANGED <<platform, decodeVars, linuxVars, WExt, WCall, instance_, keyboard_hook_,
                 mouse_hook_, is_capturing_, WOs, WCb, w_events>>

\* ------------------------------------------------------ hook invocations
\* The OS calls an installed hook procedure once per input event.  The
\* invocation is in flight from the call until the procedure returns; its
\* statements interleave with the platform thread's.
HookDispatch(kind, msg, n) ==
  /\ WinProcess
  /\ cb_pc = "none"
  /\ w_events < MaxEvents
  /\ IF kind = "keyboard" THEN os_kbd # {} ELSE os_mouse # {}
  /\ cb_pc' = "check"
  /\ cb_kind' = kind
  /\ cb_msg' = msg
  /\ cb_nCode' = n
  /\ cb_ret' = NextHookResult
  /\ cb_fwd' = FALSE
  /\ cb_sent' = FALSE
  /\ w_events' = w_events + 1
  /\ cb_to' = NULL
  /\ UNCHANGED <<platform, decodeVars, linuxVars, w_pc, WCall, WObj, WOs,
                 cb_deref, hooks_available, w_listener>>

\* Lines 241 and 284: nCode >= 0 && instance_ && instance_->event_sink_.
HookCondition ==
  /\ cb_nCode >= 0
  /\ instance_ # NULL
  /\ event_sink_ # NULL

\* Faulty variant: both hook procedures return the mouse hook's value.
ConsumedResult_same(kind) == MouseConsumed

\* Lines 277 and 356: the value that keeps the event from the rest of the
\* hook chain.
ConsumedResult(kind) ==
  IF kind = "keyboard" THEN KeyboardConsumed ELSE MouseConsumed

\* Lines 280, 350, 359: return CallNextHookEx(...).
ReturnCallNextHookEx ==
  /\ cb_pc' = "none"
  /\ cb_ret' = NextHookResult
  /\ cb_fwd' = TRUE
  /\ UNCHANGED cb_sent

\* Lines 241 / 284: the entry test.  instance_->event_sink_ is read when
\* nCode >= 0 and instance_ is not null.
HookProc_check ==
  /\ WinProcess
  /\ cb_pc = "check"
  /\ cb_deref' = (cb_deref \/ (cb_nCode >= 0 /\ instance_ # NULL
                                /\ life = "destroyed"))
  /\ IF HookCondition
     THEN cb_pc' = "decode" /\ UNCHANGED <<cb_ret, cb_fwd, cb_sent>>
     ELSE ReturnCallNextHookEx
  /\ UNCHANGED <<platform, decodeVars, linuxVars, WExt, w_pc, WCall, WObj, WOs, cb_kind, cb_msg,
                 cb_nCode, w_events>>

\* Lines 242-271 (keyboard: the event is built) and 285-351 (mouse: the
\* switch on wParam, whose default case returns CallNextHookEx).
HookProc_decode ==
  /\ WinProcess
  /\ cb_pc = "decode"
  /\ IF cb_kind = "keyboard" \/ cb_msg \in RecognizedMouseMsgs
     THEN cb_pc' = "send" /\ UNCHANGED <<cb_ret, cb_fwd, cb_sent>>
     ELSE ReturnCallNextHookEx
  /\ UNCHANGED <<platform, decodeVars, linuxVars, WExt, w_pc, WCall, WObj, WOs, cb_kind, cb_msg,
                 cb_nCode, cb_deref, w_events>>

\* Lines 273-277 / 353-356: instance_->SendEvent(event), then the consumed
\* result.  SendEvent (lines 234-238) delivers when event_sink_ is set.
\* instance_ is read again here: when the destructor has cleared it in the
\* meantime the call goes through a null pointer, which is undefined: the
\* process may crash, or go on and deliver or not.
HookProc_send ==
  /\ WinProcess
  /\ cb_pc = "send"
  /\ cb_deref' = (cb_deref \/ instance_ = NULL \/ life = "destroyed")
  /\ IF instance_ = NULL
     THEN \/ /\ cb_pc' = "crashed"
             /\ UNCHANGED <<cb_ret, cb_fwd, cb_sent, cb_to>>
          \/ /\ cb_pc' = "none"
             /\ cb_sent' \in BOOLEAN
             /\ cb_to' = (IF cb_sent' THEN event_sink_ ELSE NULL)
             /\ cb_ret' = ConsumedResult(cb_kind)
             /\ UNCHANGED cb_fwd
     ELSE /\ cb_pc' = "none"
          /\ cb_sent' = (event_sink_ # NULL)
          /\ cb_to' = event_sink_
          /\ cb_ret' = ConsumedResult(cb_kind)
          /\ UNCHANGED cb_fwd
  /\ UNCHANGED <<platform, decodeVars, linuxVars, w_pc, WCall, WObj, WOs,
                 cb_kind, cb_msg, cb_nCode, w_events, hooks_available,
                 w_listener>>

WinNext ==
  \/ \E m \in Methods : HandleMethodCall(m)
  \/ HandleMethodCall_respond
  \/ \E s \in 1..MaxSink : OnListenInternal(s)
  \/ OnCancelInternal
  \/ StartCapture_check
  \/ StartCapture_keyboard
  \/ StartCapture_mouse
  \/ StartCapture_mouse_failed
  \/ StartCapture_mark
  \/ StopCapture_check
  \/ StopCapture_keyboard
  \/ StopCapture_mouse
  \/ StopCapture_mark
  \/ Destructor_begin
  \/ Destructor_clear
  \/ Destructor_members
  \/ \E m \in KeyboardMsgs, n \in {-1, HC_ACTION} : HookDispatch("keyboard", m, n)
  \/ \E m \in MouseMsgs, n \in {-1, HC_ACTION} : HookDispatch("mouse", m, n)
  \/ HookProc_check
  \/ HookProc_decode
  \/ HookProc_send

\* ---------------------------------------------------------- Windows decoder
\* Lines 29-80: VKeyToString.
VKeyToString(vkCode) ==
  IF vkCode >= 48 /\ vkCode <= 57            \* 0x30..0x39: digits
  THEN <<vkCode>>
  ELSE IF vkCode >= 65 /\ vkCode <= 90       \* 0x41..0x5A: letters
  THEN <<vkCode + 32>>
  ELSE CASE vkCode = 13 -> Str("Return")     \* VK_RETURN
         [] vkCode = 9  -> Str("Tab")        \* VK_TAB
         [] vkCode = 8  -> Str("Backspace")  \* VK_BACK
         [] vkCode = 27 -> Str("Escape")     \* VK_ESCAPE
         [] vkCode = 46 -> Str("Delete")     \* VK_DELETE
         [] vkCode = 36 -> Str("Home")       \* VK_HOME
         [] vkCode = 35 -> Str("End")        \* VK_END
         [] vkCode = 33 -> Str("PageUp")     \* VK_PRIOR
         [] vkCode = 34 -> Str("PageDown")   \* VK_NEXT
         [] vkCode = 37 -> Str("Left")       \* VK_LEFT
         [] vkCode = 39 -> Str("Right")      \* VK_RIGHT
         [] vkCode = 38 -> Str("Up")         \* VK_UP
         [] vkCode = 40 -> Str("Down")       \* VK_DOWN
         [] vkCode = 32 -> Str("Space")      \* VK_SPACE
         [] vkCode >= 112 /\ vkCode <= 123   \* VK_F1 .. VK_F12
                        -> Str("F") \o Decimal(vkCode - 111)
         [] vkCode \in {16, 160, 161} -> Str("Shift")    \* VK_(L|R)SHIFT
         [] vkCode \in {17, 162, 163} -> Str("Control")  \* VK_(L|R)CONTROL
         [] vkCode \in {18, 164, 165} -> Str("Alt")      \* VK_(L|R)MENU
         [] vkCode \in {91, 92}       -> Str("Meta")     \* VK_LWIN, VK_RWIN
         [] OTHER -> Str("Key") \o Decimal(vkCode)

\* GetAsyncKeyState(vk) & 0x8000: the key is down.  r.down is the set of
\* VK_SHIFT (16), VK_CONTROL (17), VK_MENU (18), VK_LWIN (91), VK_RWIN (92)
\* that are down when the hook runs.
GetAsyncKeyState(r, vk) == vk \in r.down

\* Faulty variant: "meta" is appended once for each Windows key that is down.
HookModifiers_metatwice(r) ==
  (IF GetAsyncKeyState(r, 16) THEN <<"shift">> ELSE << >>)
  \o (IF GetAsyncKeyState(r, 17) THEN <<"control">> ELSE << >>)
  \o (IF GetAsyncKeyState(r, 18) THEN <<"alt">> ELSE << >>)
  \o (IF GetAsyncKeyState(r, 91) THEN <<"meta">> ELSE << >>)
  \o (IF GetAsyncKeyState(r, 92) THEN <<"meta">> ELSE << >>)

\* Lines 258-270: the modifier list, in the order pushed.
HookModifiers(r) ==
  (IF GetAsyncKeyState(r, 16) THEN <<"shift">> ELSE << >>)
  \o (IF GetAsyncKeyState(r, 17) THEN <<"control">> ELSE << >>)
  \o (IF GetAsyncKeyState(r, 18) THEN <<"alt">> ELSE << >>)
  \o (IF GetAsyncKeyState(r, 91) \/ GetAsyncKeyState(r, 92)
      THEN <<"meta">> ELSE << >>)

\* Lines 242-277: the body of KeyboardHookProc once its entry test passed.
\* GetTimestamp() is the clock in milliseconds.
KeyboardHookProc_decode(r) ==
  LET is_down == r.wParam \in {"WM_KEYDOWN", "WM_SYSKEYDOWN"}
      e0 == Put(EmptyMap, "timestamp", r.time_ms)
      e1 == Put(e0, "type", IF is_down THEN "keyDown" ELSE "keyUp")
      e2 == Put(e1, "keyCode", r.vkCode)
      e3 == Put(e2, "key", VKeyToString(r.vkCode))
      e4 == Put(e3, "modifiers", HookModifiers(r))
  IN  Sent(e4)

\* Lines 299-330: a button message.
DecodeButtonMessage(r, e, down, name) ==
  LET e1 == Put(e, "type", IF r.wParam = down THEN "mouseDown" ELSE "mouseUp")
      e2 == Put(e1, "button", name)
      e3 == Put(e2, "x", Double(r.x))
      e4 == Put(e3, "y", Double(r.y))
  IN  Sent(e4)

\* Faulty variant: the delta divided as an integer (120 for 120.0), so that
\* half a detent becomes 0.
DecodeWheelMessage_truncating(r, e) ==
  LET e1 == Put(e, "type", "mouseScroll")
      delta == ToInt16(r.mouseData_hi)
      normalized_delta == Double(IF delta < 0 THEN -((-delta) \div 120)
                                 ELSE delta \div 120)
      e2 == Put(e1, "deltaX", IF r.wParam = "WM_MOUSEWHEEL"
                              THEN Double(0) ELSE normalized_delta)
      e3 == Put(e2, "deltaY", IF r.wParam = "WM_MOUSEWHEEL"
                              THEN normalized_delta ELSE Double(0))
  IN  Sent(e3)

\* Lines 332-346: a wheel message; the delta is the high word of mouseData
\* read as a short, over WHEEL_DELTA.
DecodeWheelMessage(r, e) ==
  LET e1 == Put(e, "type", "mouseScroll")
      delta == ToInt16(r.mouseData_hi)
      normalized_delta == Quotient(delta, 120)
      e2 == Put(e1, "deltaX", IF r.wParam = "WM_MOUSEWHEEL"
                              THEN Double(0) ELSE normalized_delta)
      e3 == Put(e2, "deltaY", IF r.wParam = "WM_MOUSEWHEEL"
                              THEN normalized_delta ELSE Double(0))
  IN  Sent(e3)

\* Lines 285-356: the body of MouseHookProc once its entry test passed.
MouseHookProc_decode(r) ==
  LET e == Put(EmptyMap, "timestamp", r.time_ms)
  IN  CASE r.wParam = "WM_MOUSEMOVE" ->
             Sent(Put(Put(Put(e, "type", "mouseMove"), "x", Double(r.x)),
                      "y", Double(r.y)))
        [] r.wParam \in {"WM_LBUTTONDOWN", "WM_LBUTTONUP"} ->
             DecodeButtonMessage(r, e, "WM_LBUTTONDOWN", "left")
        [] r.wParam \in {"WM_RBUTTONDOWN", "WM_RBUTTONUP"} ->
             DecodeButtonMessage(r, e, "WM_RBUTTONDOWN", "right")
        [] r.wParam \in {"WM_MBUTTONDOWN", "WM_MBUTTONUP"} ->
             DecodeButtonMessage(r, e, "WM_MBUTTONDOWN", "middle")
        [] r.wParam \in {"WM_MOUSEWHEEL", "WM_MOUSEHWHEEL"} ->
             DecodeWheelMessage(r, e)
        [] OTHER -> Dropped

\* The keyboard hook's inputs: wParam, KBDLLHOOKSTRUCT.vkCode, the modifier
\* keys that are down, the clock.
KeyboardRecords ==
  [kind : {"keyboard"},
   wParam : {"WM_KEYDOWN", "WM_KEYUP", "WM_SYSKEYDOWN", "WM_SYSKEYUP"},
   vkCode : {7, 13, 16, 32, 48, 49, 65, 90, 91, 92, 112, 123, 160, 186},
   down : {{}, {16}, {17}, {18}, {91}, {92}, {91, 92}, {16, 17, 18, 91, 92}},
   time_ms : {1}]

\* The mouse hook's inputs: wParam, MSLLHOOKSTRUCT.pt, the high word of
\* mouseData, the clock.
MouseRecords ==
  [kind : {"mouse"},
   wParam : MouseMsgs,
   x : {-5, 0, 120},
   y : {0, 340},
   mouseData_hi : {0, 60, 120, 240, 65416},
   time_ms : {1}]

\* ------------------------------------------------- decoder specification
RawRecords ==
  IF platform = "linux" THEN XRecords ELSE KeyboardRecords \cup MouseRecords

\* The callback returns with `result`.
DecodeDone(result) ==
  /\ d_pc' = IF result.sent THEN "sent" ELSE "dropped"
  /\ event_map' = result.map
  /\ UNCHANGED <<platform, linuxVars, winVars, raw>>

\* Lines 199-308: the worker runs record_event_callback on the record.
record_event_callback ==
  /\ platform = "linux"
  /\ d_pc = "wait"
  /\ DecodeDone(record_event_callback_decode(raw))

\* Lines 240-281, for an invocation whose entry test passed.
KeyboardHookProc ==
  /\ platform = "windows"
  /\ d_pc = "wait"
  /\ raw.kind = "keyboard"
  /\ DecodeDone(KeyboardHookProc_decode(raw))

\* Lines 283-360, for an invocation whose entry test passed.
MouseHookProc ==
  /\ platform = "windows"
  /\ d_pc = "wait"
  /\ raw.kind = "mouse"
  /\ DecodeDone(MouseHookProc_decode(raw))

\* Lines 307-308 / 277, 356: the callback returns; the record and the event
\* map, a local of the callback, are gone.
CallbackReturns ==
  /\ d_pc \in {"sent", "dropped"}
  /\ raw' = NoRaw
  /\ event_map' = EmptyMap
  /\ d_pc' = "idle"
  /\ UNCHANGED <<platform, linuxVars, winVars>>

\* The next raw record arrives; the callback starts with a fresh event map
\* (line 211 / lines 244, 287).
NextRecord ==
  /\ d_pc = "idle"
  /\ \E r \in RawRecords : raw' = r
  /\ event_map' = EmptyMap
  /\ d_pc' = "wait"
  /\ UNCHANGED <<platform, linuxVars, winVars>>

DecodeInit ==
  /\ platform \in {"linux", "windows"}
  /\ x11_record = TRUE
  /\ hooks_available = TRUE
  /\ Registered
  /\ x_sync = TRUE
  /\ LinuxInit
  /\ WinInit
  /\ d_pc = "idle"
  /\ raw = NoRaw
  /\ event_map = EmptyMap

DecodeNext ==
  \/ NextRecord
  \/ record_event_callback
  \/ KeyboardHookProc
  \/ MouseHookProc
  \/ CallbackReturns

DecodeSpec == DecodeInit /\ [][DecodeNext]_vars

\* ============================================================ specification
\* The decoder specification is not running.
DecodeOff ==
  /\ d_pc = "off"
  /\ raw = NoRaw
  /\ event_map = EmptyMap

Init ==
  /\ platform \in {"linux", "windows"}
  /\ x11_record \in (IF platform = "linux" THEN BOOLEAN ELSE {FALSE})
  /\ hooks_available \in (IF platform = "windows" THEN BOOLEAN ELSE {FALSE})
  /\ Registered
  /\ x_sync = TRUE
  /\ LinuxInit
  /\ WinInit
  /\ DecodeOff

Next == LinuxNext \/ WinNext

Spec == Init /\ [][Next]_vars

\* ------------------------------ the Linux build on Xlib's default connection
\* The query connection buffers its requests (Xlib's default).
AsyncInit ==
  /\ platform = "linux"
  /\ x11_record \in BOOLEAN
  /\ hooks_available = FALSE
  /\ Registered
  /\ x_sync = FALSE
  /\ LinuxInit
  /\ WinInit
  /\ DecodeOff

\* The statements of a handler the platform thread has entered: once the
\* thread is in method_call_cb or dispose it goes on to the next statement.
PlatformThreadStep ==
  \/ method_respond
  \/ start_capture_check
  \/ start_capture_XOpenDisplay
  \/ start_capture_XRecordAllocRange
  \/ start_capture_XRecordCreateContext
  \/ start_capture_create_failed
  \/ start_capture_pthread_create
  \/ start_capture_thread_failed_free
  \/ start_capture_thread_failed_close
  \/ start_capture_mark
  \/ stop_capture_check
  \/ stop_capture_flags
  \/ stop_capture_XRecordDisableContext
  \/ stop_capture_XRecordFreeContext
  \/ stop_capture_pthread_join
  \/ stop_capture_XCloseDisplay
  \/ dispose_XCloseDisplay

\* The statements of worker t: entering the enable call, finishing a
\* callback, returning from the enable call once the server ended it.
WorkerStep(t) ==
  \/ record_thread_func_enable(t)
  \/ record_event_callback_end(t)
  \/ record_thread_func_return(t)

\* Both threads are scheduled fairly and the server carries out what it
\* is sent; calls, subscriptions and input arrive whenever they do.
AsyncSpec ==
  /\ AsyncInit
  /\ [][LinuxNext]_vars
  /\ WF_vars(PlatformThreadStep)
  /\ \A t \in Ids : WF_vars(WorkerStep(t))

\* ============================================= Linux build: registration
\* input_capture_plugin_register_with_registrar (lines 398-422) and the
\* calls the embedder routes to the two handlers afterwards.

\* Before line 399: no controller object exists yet.
RegisterInit ==
  /\ platform = "linux"
  /\ x11_record \in BOOLEAN
  /\ hooks_available = FALSE
  /\ r_pc = "new"
  /\ ref_count = 0
  /\ x_sync = TRUE
  /\ l_pc = "idle"
  /\ l_call = "none"
  /\ l_reply = NoReply
  /\ l_fail = "none"
  /\ is_capturing = FALSE
  /\ thread_running = FALSE
  /\ record_display = NULL
  /\ record_context = NULL
  /\ record_thread = NULL
  /\ range = FALSE
  /\ x_conns = {}
  /\ x_ctxs = [c \in Ids |-> "none"]
  /\ threads = [t \in Ids |-> "none"]
  /\ t_ctx = [t \in Ids |-> NULL]
  /\ l_events = 0
  /\ display = NULL
  /\ event_handler = NULL
  /\ l_listening = FALSE
  /\ l_sent = FALSE
  /\ l_sent_unheard = FALSE
  /\ t_rec = [t \in Ids |-> NoRaw]
  /\ x_out = << >>
  /\ keysyms = FALSE
  /\ WinInit
  /\ DecodeOff

\* Lines 399-400 and 390-396: g_object_new returns the object with one
\* reference, the caller's; input_capture_plugin_init has opened the query
\* connection and cleared the capture fields.
register_g_object_new ==
  /\ platform = "linux"
  /\ r_pc = "new"
  /\ ref_count' = 1
  /\ display' = MainDisplay
  /\ r_pc' = "method_handler"
  /\ UNCHANGED <<platform, decodeVars, winVars, LXlib, t_rec, l_pc, l_call,
                 l_reply, l_fail, LState, LOs, l_events, event_handler,
                 l_listening, l_sent, l_sent_unheard>>

\* Lines 403-409: fl_method_channel_set_method_call_handler(channel,
\* method_call_cb, plugin, nullptr): the object is the handler's user data;
\* no reference is taken and no destroy notification is given.
register_set_method_call_handler ==
  /\ platform = "linux"
  /\ r_pc = "method_handler"
  /\ r_pc' = "stream_handler"
  /\ UNCHANGED <<platform, decodeVars, winVars, LXlib, ref_count, t_rec,
                 LExt, l_pc, l_call, l_reply, l_fail, LState, LOs, l_events>>

\* Lines 412-419: the event channel and its handler (listen_cb, cancel_cb,
\* plugin, nullptr): again no reference is taken.
register_set_stream_handler ==
  /\ platform = "linux"
  /\ r_pc = "stream_handler"
  /\ event_handler' = Handler
  /\ r_pc' = "unref"
  /\ UNCHANGED <<platform, decodeVars, winVars, LXlib, ref_count, t_rec,
                 l_pc, l_call, l_reply, l_fail, LState, LOs, l_events,
                 display, l_listening, l_sent, l_sent_unheard>>

\* Line 421: g_object_unref(plugin).  When the count reaches zero GObject
\* runs input_capture_plugin_dispose (lines 369-375) inside the call.
register_g_object_unref ==
  /\ platform = "linux"
  /\ r_pc = "unref"
  /\ ref_count' = ref_count - 1
  /\ r_pc' = "return"
  /\ IF ref_count' = 0
     THEN /\ l_call' = "dispose"
          /\ l_pc' = IF is_capturing THEN "stop_check" ELSE "dispose_close"
     ELSE UNCHANGED <<l_call, l_pc>>
  /\ UNCHANGED <<platform, decodeVars, winVars, LXlib, t_rec, LExt, l_reply,
                 l_fail, LState, LOs, l_events>>

\* Line 422: the unref has returned (the object's memory is released when
\* the count was zero) and register_with_registrar returns; the platform
\* thread is back in the main loop.
register_return ==
  /\ platform = "linux"
  /\ r_pc = "return"
  /\ l_pc \in {"idle", "disposed"}
  /\ r_pc' = "done"
  /\ l_pc' = "idle"
  /\ UNCHANGED <<platform, decodeVars, winVars, LXlib, ref_count, t_rec,
                 LExt, l_call, l_reply, l_fail, LState, LOs, l_events>>

\* The user data of the handlers names an object whose memory has been
\* released.
DanglingUserData ==
  /\ r_pc = "done"
  /\ ref_count = 0

\* Line 47: method_call_cb casts and reads its user data.  On released
\* memory the outcomes are: the fields still read as dispose left them (the
\* call goes on as method_call_cb above), the memory has been given out
\* again and is_capturing reads as any value, or the access faults.
method_call_cb_released ==
  /\ platform = "linux"
  /\ l_pc = "idle"
  /\ DanglingUserData
  /\ \/ ProcessEnds
     \/ /\ is_capturing' \in BOOLEAN
        /\ is_capturing' # is_capturing
        /\ UNCHANGED <<platform, decodeVars, winVars, LXlib, LReg, t_rec,
                       LExt, l_pc, l_call, l_reply, l_fail, thread_running,
                       record_display, record_context, record_thread, LOs,
                       l_events>>

\* An Xlib call that is handed self->display after dispose has set it to
\* nullptr (lines 65, 75, 170, 171, 228) reads through a null Display.
XlibNullDisplay ==
  /\ platform = "linux"
  /\ display = NULL
  /\ \/ l_pc \in {"stop_disable", "stop_free"}
     \/ /\ l_pc = "respond"
        /\ l_call \in {"checkPermissions", "requestPermissions"}
     \/ \E t \in Ids : WorkerUsesDisplay(t)
  /\ ProcessEnds

\* The steps of the Linux build around the registration.  dispose runs from
\* the unref of line 421; a statement that passes self->display to Xlib is
\* taken only while the field is set.
RegisterNext ==
  \/ register_g_object_new
  \/ register_set_method_call_handler
  \/ register_set_stream_handler
  \/ register_g_object_unref
  \/ dispose_XCloseDisplay
  \/ register_return
  \/ method_call_cb_released
  \/ XlibNullDisplay
  \/ r_pc = "done" /\ \E m \in Methods : method_call_cb(m)
  \/ r_pc = "done" /\ listen_cb
  \/ r_pc = "done" /\ cancel_cb
  \/ /\ l_call \in {"checkPermissions", "requestPermissions"} => display # NULL
     /\ method_respond
  \/ start_capture_check
  \/ start_capture_XOpenDisplay
  \/ start_capture_XRecordAllocRange
  \/ start_capture_XRecordCreateContext
  \/ start_capture_create_failed
  \/ start_capture_pthread_create
  \/ start_capture_thread_failed_free
  \/ start_capture_thread_failed_close
  \/ start_capture_mark
  \/ stop_capture_check
  \/ stop_capture_flags
  \/ stop_capture_pthread_join
  \/ stop_capture_XCloseDisplay
  \/ \E t \in Ids : record_thread_func_enable(t)
  \/ \E t \in Ids : record_event_callback_begin(t)
  \/ \E t \in Ids : /\ WorkerUsesDisplay(t) => display # NULL
                    /\ record_event_callback_end(t)
  \/ \E t \in Ids : record_thread_func_return(t)

RegisterSpec == RegisterInit /\ [][RegisterNext]_vars

\* ==================================================================== claims

StartPcs == {"start_check", "start_open", "start_range", "start_create",
             "start_create_fail", "start_thread", "start_thread_fail_ctx",
             "start_thread_fail_conn", "start_mark"}
StopPcs  == {"stop_check", "stop_flags", "stop_disable", "stop_free",
             "stop_join", "stop_close"}
WStartPcs == {"start_check", "start_kbd", "start_mouse", "start_mouse_fail",
              "start_mark"}
WStopPcs  == {"stop_check", "stop_kbd", "stop_mouse", "stop_mark"}

\* No call is executing on the Linux platform thread.
LQuiet == platform = "linux" /\ l_pc = "idle"
\* No call is executing on the Windows platform thread (object alive).
WQuiet == platform = "windows" /\ w_pc = "idle" /\ life = "alive"

LNothingHeld == x_conns = {} /\ LiveCtxs = {} /\ HeldThreads = {}
WNothingHeld == os_kbd = {} /\ os_mouse = {}

\* C1: between calls, after any sequence of Start/Stop calls with any
\* acquisition outcome: a controller that reports "not capturing" holds no
\* OS capture resource (Linux: no record connection, no record context, no
\* thread; Windows: no hook), and one that reports "capturing" holds each
\* resource exactly once, the one its field names.
C1_IdleHoldsNothing_RunningHoldsOnce ==
  /\ LQuiet =>
       /\ ~is_capturing =>
            /\ LNothingHeld
            /\ record_display = NULL
            /\ record_context = NULL
       /\ is_capturing =>
            /\ record_display # NULL /\ x_conns = {record_display}
            /\ record_context # NULL /\ LiveCtxs = {record_context}
            /\ record_thread # NULL /\ HeldThreads = {record_thread}
            /\ AliveThreads = {record_thread}
  /\ WQuiet =>
       /\ ~is_capturing_ =>
            /\ WNothingHeld
            /\ keyboard_hook_ = NULL
            /\ mouse_hook_ = NULL
       /\ is_capturing_ =>
            /\ keyboard_hook_ # NULL /\ os_kbd = {keyboard_hook_}
            /\ mouse_hook_ # NULL /\ os_mouse = {mouse_hook_}

\* C1 witness: a second capture session is running after a first one was
\* started and stopped (the thread field was written before, the last two
\* calls were stopCapture then a successful startCapture).
C1_Witness ==
  /\ LQuiet
  /\ is_capturing
  /\ l_reply.method = "startCapture" /\ l_reply.value
  /\ l_reply.prev = "stopCapture"
  /\ x_conns # {}

\* C2: on Linux, while start_capture executes, the resources held are always
\* a prefix of (record connection, record context, worker thread): they are
\* acquired in that order and a rollback releases them in reverse; and when
\* an acquisition step failed, at the point start_capture returns nothing is
\* held, the range is freed, record_display and record_context are empty,
\* is_capturing is false and startCapture answers false.
C2_StartRollsBack ==
  platform = "linux" =>
    /\ (l_call = "startCapture" /\ l_pc \in StartPcs) =>
         /\ HeldThreads # {} => LiveCtxs # {}
         /\ LiveCtxs # {} => x_conns # {}
    /\ (l_call = "startCapture" /\ l_pc = "respond" /\ l_fail # "none") =>
         /\ LNothingHeld
         /\ ~range
         /\ record_display = NULL
         /\ record_context = NULL
         /\ ~is_capturing
         /\ method_result = FALSE
    /\ (l_call = "startCapture" /\ l_pc = "idle" /\ l_fail # "none") =>
         /\ l_reply.method = "startCapture"
         /\ l_reply.value = FALSE
         /\ LNothingHeld

\* C2 witness: start_capture returns after pthread_create failed (the step
\* with two resources to roll back).
C2_Witness ==
  /\ platform = "linux"
  /\ l_call = "startCapture"
  /\ l_pc = "respond"
  /\ l_fail = "thread"

C4_StartWhileRunningIsNoop ==
  [][ /\ (l_pc = "start_check" /\ is_capturing /\ l_pc' # l_pc) =>
           /\ l_pc' = "respond"
           /\ UNCHANGED <<LState, range, x_conns, x_ctxs, threads, t_ctx>>
      /\ (l_pc = "respond" /\ l_call = "startCapture" /\ is_capturing
            /\ l_pc' # l_pc) =>
           /\ l_reply'.value = TRUE
           /\ UNCHANGED <<LState, range, x_conns, x_ctxs, threads, t_ctx>>
      /\ (w_pc = "start_check" /\ is_capturing_ /\ w_pc' # w_pc) =>
           /\ w_pc' = "respond"
           /\ w_ret' = TRUE
           /\ UNCHANGED <<WObj, WOs>>
      /\ (w_pc = "respond" /\ w_call = "startCapture" /\ is_capturing_
            /\ w_pc' # w_pc) =>
           /\ w_reply'.value = TRUE
           /\ UNCHANGED <<WObj, WOs>>
    ]_vars

\* C4 witness: startCapture has been answered true twice in a row and the
\* capture is running (the second call found it Running).
C4_Witness ==
  /\ LQuiet
  /\ is_capturing
  /\ l_reply.method = "startCapture" /\ l_reply.value
  /\ l_reply.prev = "startCapture" /\ l_reply.pvalue

\* C5: stopCapture always answers true and leaves the controller not
\* capturing (an isCapturing that follows answers false); when the
\* controller is not Running, Stop goes straight to its return: no field
\* and no OS resource changes, nothing is released or joined.
C5_StopAlwaysTrue_NoopWhenIdle ==
  /\ [](LQuiet =>
          /\ l_reply.method = "stopCapture" =>
               (l_reply.value = TRUE /\ ~is_capturing)
          /\ (l_reply.method = "isCapturing" /\ l_reply.prev = "stopCapture") =>
               l_reply.value = FALSE)
  /\ [](WQuiet =>
          /\ w_reply.method = "stopCapture" =>
               (w_reply.value = TRUE /\ ~is_capturing_)
          /\ (w_reply.method = "isCapturing" /\ w_reply.prev = "stopCapture") =>
               w_reply.value = FALSE)
  /\ [][ /\ (l_pc = "stop_check" /\ ~is_capturing /\ l_pc' # l_pc) =>
              /\ l_pc' = "respond"
              /\ UNCHANGED <<LState, range, x_conns, x_ctxs, threads, t_ctx>>
         /\ (w_pc = "stop_check" /\ ~is_capturing_ /\ w_pc' # w_pc) =>
              /\ w_pc' = StopCapture_return
              /\ UNCHANGED <<WObj, WOs>>
       ]_vars

\* C5 witness: stopCapture was answered twice in a row (the second found the
\* controller not Running) after a worker had been spawned and joined.
C5_Witness ==
  /\ LQuiet
  /\ l_reply.method = "stopCapture"
  /\ l_reply.prev = "stopCapture"
  /\ record_thread # NULL

\* Stop has returned and no later call has begun.
LStopReturned ==
  /\ platform = "linux"
  /\ l_call = "stopCapture"
  /\ l_pc \in {"stop_close", "respond", "idle"}

\* C6: on Linux, once stop_capture is past its join (and so once Stop has
\* returned) no worker thread exists: none is blocked in the enable call,
\* none is inside record_event_callback, none is left unjoined; the
\* controller is not capturing, and an isCapturing that follows answers
\* false.
C6_NoWorkerAfterStop ==
  /\ LStopReturned =>
       /\ \A t \in Ids : threads[t] = "none"
       /\ ~is_capturing
  /\ (LQuiet /\ l_reply.method = "isCapturing" /\ l_reply.prev = "stopCapture")
       => l_reply.value = FALSE

\* C6 witness: Stop has returned right after a successful Start, with no
\* record delivered in between.
C6_Witness ==
  /\ LQuiet
  /\ l_reply.method = "stopCapture"
  /\ l_reply.prev = "startCapture" /\ l_reply.pvalue
  /\ l_events = 0

\* C7 (the claim as stated): on Linux no resource the worker is using is
\* released while the worker thread is alive: as long as a worker's thread
\* function has not returned, the record connection is open and the record
\* context the worker is blocked on still exists (Stop releases only after
\* its join).
C7_NoReleaseWhileWorkerAlive ==
  platform = "linux" =>
    \A t \in AliveThreads :
      /\ x_conns # {}
      /\ t_ctx[t] # NULL => x_ctxs[t_ctx[t]] # "none"

\* The capture is Running on Windows: started, object alive, and no
\* StopCapture executing.
WRunning ==
  /\ platform = "windows"
  /\ life = "alive"
  /\ is_capturing_
  /\ w_pc \notin WStopPcs

\* The in-flight hook invocation executes a statement in this step.
HookStep == cb_pc # "none" /\ cb_pc' # cb_pc

HookRecognized == cb_kind = "keyboard" \/ cb_msg \in RecognizedMouseMsgs

\* C8 (the claim as stated): on Windows, while capture is Running, every
\* hook invocation (nCode >= 0) for a keyboard event returns -1 and every
\* one for a recognized pointer event returns 1, and the event is never
\* passed to the next hook.
C8_AlwaysConsumedWhileRunning ==
  [][ (HookStep /\ cb_pc' = "none" /\ WRunning /\ cb_nCode >= 0
         /\ HookRecognized) =>
        /\ cb_ret' = (IF cb_kind = "keyboard" THEN -1 ELSE 1)
        /\ ~cb_fwd'
    ]_vars

\* C8 (amended): on Windows, while capture is Running, a hook invocation
\* with nCode >= 0 that finds a consumer registered (event_sink_ set) at its
\* entry test goes on to decode; a keyboard event or a recognized pointer
\* event is then sent and the invocation returns -1 (keyboard) or 1
\* (pointer) without calling CallNextHookEx.  An invocation that finds no
\* consumer registered, or has nCode < 0, returns CallNextHookEx's result:
\* the event is passed down the chain and nothing is delivered.
C8_ConsumedWhenSinkRegistered ==
  [][ /\ (HookStep /\ cb_pc = "check" /\ WRunning /\ cb_nCode >= 0
            /\ event_sink_ # NULL) =>
           (cb_pc' = "decode" /\ ~cb_fwd')
      /\ (HookStep /\ cb_pc = "decode" /\ WRunning /\ HookRecognized) =>
           (cb_pc' = "send" /\ ~cb_fwd')
      /\ (HookStep /\ cb_pc = "send" /\ WRunning) =>
           /\ cb_pc' = "none"
           /\ cb_ret' = (IF cb_kind = "keyboard" THEN -1 ELSE 1)
           /\ ~cb_fwd'
           /\ cb_sent' = (event_sink_ # NULL)
      /\ (HookStep /\ cb_pc = "check" /\ WRunning
            /\ (cb_nCode < 0 \/ event_sink_ = NULL)) =>
           /\ cb_pc' = "none"
           /\ cb_fwd'
           /\ cb_ret' = NextHookResult
           /\ ~cb_sent'
    ]_vars

\* C8 witness: while Running with a consumer registered, a keyboard
\* invocation has returned -1 after delivering its event.
C8_Witness ==
  /\ WRunning
  /\ w_pc = "idle"
  /\ event_sink_ # NULL
  /\ cb_pc = "none"
  /\ cb_kind = "keyboard"
  /\ cb_ret = -1
  /\ cb_sent
  /\ ~cb_fwd

\* StopCapture has torn a Running capture down and returned; no later call
\* has begun.
WStopTornDown ==
  /\ WQuiet
  /\ w_reply.method = "stopCapture"
  /\ w_reply.prev = "startCapture" /\ w_reply.pvalue

\* C9 (the claim as stated): on Windows, once Stop has torn the capture
\* down and returned, the process-wide controller pointer is cleared, and a
\* hook invocation that runs its entry test then observes no controller: it
\* returns through CallNextHookEx and delivers nothing.
C9_StopClearsInstance ==
  [][ /\ WStopTornDown' => instance_' = NULL
      /\ (WStopTornDown /\ HookStep /\ cb_pc = "check") =>
           /\ cb_pc' = "none"
           /\ cb_fwd'
           /\ ~cb_sent'
    ]_vars

\* C10 (the claim as stated): on Windows, in every interleaving of a hook
\* invocation with the controller's teardown, the callback uses a valid
\* controller or observes none: it never goes through a controller pointer
\* that the destructor has already cleared or whose object is destroyed.
C10_NoUseAfterDestruction == ~cb_deref

\* The methods that only report.
QueryMethods == {"isCapturing", "checkPermissions", "requestPermissions"}

\* The record callback on the Linux worker finishes in this step.
LCallbackEnds ==
  \E t \in Ids : threads[t] = "callback" /\ threads'[t] = "enabled"

\* C11 (the claim as stated): on both platforms the sink holds at most one
\* registered consumer.  An event sent while no consumer is registered
\* (never subscribed, or unsubscribed) is delivered nowhere; an event sent
\* while one is registered is delivered to the most recently registered
\* consumer and to no other.
C11_DeliveredOnlyToRegisteredConsumer ==
  [][ /\ (platform = "linux" /\ LCallbackEnds /\ ~l_listening) => ~l_sent'
      /\ (HookStep /\ cb_pc = "send" /\ life = "alive") =>
           /\ w_listener = NULL => (~cb_sent' /\ cb_to' = NULL)
           /\ w_listener # NULL => (cb_sent' => cb_to' = w_listener)
    ]_vars

C13_UnavailableFacilityReported ==
  /\ (platform = "linux" /\ ~x11_record) =>
       /\ ~is_capturing
       /\ (l_call = "startCapture" /\ l_pc \in {"respond", "idle"}) =>
            LNothingHeld /\ record_display = NULL /\ record_context = NULL
       /\ (LQuiet /\ l_reply.method = "startCapture") => l_reply.value = FALSE
       /\ (LQuiet /\ l_reply.method = "checkPermissions"
             /\ l_reply.prev = "startCapture") =>
            (l_reply.pvalue = FALSE /\ l_reply.value = FALSE)
  /\ (platform = "windows" /\ ~hooks_available) =>
       /\ ~is_capturing_
       /\ WNothingHeld /\ keyboard_hook_ = NULL /\ mouse_hook_ = NULL
       /\ (WQuiet /\ w_reply.method = "startCapture") => w_reply.value = FALSE
       /\ (WQuiet /\ w_reply.method = "checkPermissions"
             /\ w_reply.prev = "startCapture") =>
            (w_reply.pvalue = FALSE /\ w_reply.value = FALSE)

\* C14: destroying a controller stops a running capture first.  Linux: the
\* query connection Stop sends its disable and free requests on is open
\* when Stop uses it, dispose closes it only after stop_capture returned
\* with nothing held, and once dispose is done no record connection, record
\* context or worker thread is left.  Windows: once the destructor is past
\* its StopCapture no hook is installed.
C14_DestroyStopsFirst ==
  /\ platform = "linux" =>
       /\ l_pc \in {"stop_disable", "stop_free"} => display = MainDisplay
       /\ l_pc \in {"dispose_close", "disposed"} =>
            /\ LNothingHeld
            /\ ~is_capturing
            /\ record_display = NULL
            /\ record_context = NULL
       /\ l_pc = "disposed" => display = NULL
  /\ (platform = "windows"
        /\ w_pc \in {"dtor_clear", "dtor_members", "gone"}) =>
         /\ WNothingHeld
         /\ ~is_capturing_
         /\ keyboard_hook_ = NULL
         /\ mouse_hook_ = NULL

\* C14 witness: dispose has completed on a controller whose last answered
\* call was a successful startCapture (it was Running when dispose began).
C14_Witness ==
  /\ platform = "linux"
  /\ l_pc = "disposed"
  /\ l_reply.method = "startCapture" /\ l_reply.value
  /\ record_thread # NULL

\* ------------------------------------------------------- decoder claims
\* The callback has finished with the record at hand.
Decoded == d_pc \in {"sent", "dropped"}
\* It sent an event of one of the types ts.
SentType(ts) == d_pc = "sent" /\ event_map.type \in ts

\* The event type of a Linux record that came from the server (0 if the
\* record at hand is not one).
XEventType ==
  IF raw.kind = "xrecord" /\ raw.category = XRecordFromServer
  THEN raw.byte0 % 128 ELSE 0

\* The raw record at hand is a key record / a pointer-move record / a
\* button record.
IsKeyRaw ==
  XEventType \in {KeyPress, KeyRelease} \/ raw.kind = "keyboard"
IsMoveRaw ==
  \/ XEventType = MotionNotify
  \/ (raw.kind = "mouse" /\ raw.wParam = "WM_MOUSEMOVE")
IsXButtonRaw == XEventType \in {ButtonPress, ButtonRelease}

KeyFields    == {"timestamp", "type", "keyCode", "key", "modifiers"}
MoveFields   == {"timestamp", "type", "x", "y"}
ButtonFields == {"timestamp", "type", "button", "x", "y"}
ScrollFields == {"timestamp", "type", "deltaX", "deltaY"}

ModifierNames == {"shift", "control", "alt", "meta"}
\* A list of modifier names without duplicates.
ModifiersOk(m) ==
  /\ \A i \in 1..Len(m) : m[i] \in ModifierNames
  /\ \A i, j \in 1..Len(m) : i # j => m[i] # m[j]

\* C15: on both platforms every key record decodes to a keyDown/keyUp event
\* carrying exactly timestamp, type, keyCode, key and modifiers (no button,
\* x, y, deltaX, deltaY); every pointer-move record decodes to a mouseMove
\* event carrying exactly timestamp, type, x and y; and modifiers is a
\* duplicate-free list of names among shift, control, alt, meta.
C15_KeyAndMoveEventFields ==
  /\ (Decoded /\ IsKeyRaw) => SentType({"keyDown", "keyUp"})
  /\ (Decoded /\ IsMoveRaw) => SentType({"mouseMove"})
  /\ SentType({"keyDown", "keyUp"}) =>
       /\ DOMAIN event_map = KeyFields
       /\ ModifiersOk(event_map.modifiers)
  /\ SentType({"mouseMove"}) => DOMAIN event_map = MoveFields

\* C15 witness: a Linux key press of the letter a with all four modifier
\* bits set has been decoded and sent.
C15_Witness ==
  /\ platform = "linux"
  /\ SentType({"keyDown"})
  /\ event_map.key = Str("a")
  /\ event_map.modifiers = <<"shift", "control", "alt", "meta">>

\* C16: on Linux a button record (press or release) with button number 4,
\* 5, 6 or 7 always decodes to a mouseScroll event with no button field and
\* (deltaX, deltaY) = (0, +1) for 4, (0, -1) for 5, (+1, 0) for 6 and
\* (-1, 0) for 7.
C16_ScrollButtons ==
  (Decoded /\ IsXButtonRaw /\ raw.byte1 \in 4..7) =>
    /\ SentType({"mouseScroll"})
    /\ "button" \notin DOMAIN event_map
    /\ {"deltaX", "deltaY"} \subseteq DOMAIN event_map
    /\ raw.byte1 = 4 =>
         (event_map.deltaX = Double(0) /\ event_map.deltaY = Double(1))
    /\ raw.byte1 = 5 =>
         (event_map.deltaX = Double(0) /\ event_map.deltaY = Double(-1))
    /\ raw.byte1 = 6 =>
         (event_map.deltaX = Double(1) /\ event_map.deltaY = Double(0))
    /\ raw.byte1 = 7 =>
         (event_map.deltaX = Double(-1) /\ event_map.deltaY = Double(0))

\* C16 witness: a press of button 7 has been decoded to a scroll event
\* with deltaX = -1.
C16_Witness ==
  /\ SentType({"mouseScroll"})
  /\ XEventType = ButtonPress
  /\ raw.byte1 = 7
  /\ event_map.deltaX = [num |-> -1, den |-> 1]

\* C17 (the claim as stated): on both platforms every delivered event
\* carries exactly the fields of its type: a mouseScroll event carries
\* timestamp, type, deltaX, deltaY and none of x, y, button, key, keyCode,
\* modifiers; a mouseDown/mouseUp event carries timestamp, type, button, x,
\* y and no deltaX/deltaY; key and move events as in C15.
C17_ExactlyTheFieldsOfTheType ==
  /\ SentType({"mouseScroll"}) => DOMAIN event_map = ScrollFields
  /\ SentType({"mouseDown", "mouseUp"}) => DOMAIN event_map = ButtonFields
  /\ SentType({"keyDown", "keyUp"}) => DOMAIN event_map = KeyFields
  /\ SentType({"mouseMove"}) => DOMAIN event_map = MoveFields

\* The button messages of the Windows mouse hook.
ButtonMsgs == {"WM_LBUTTONDOWN", "WM_LBUTTONUP", "WM_RBUTTONDOWN",
               "WM_RBUTTONUP", "WM_MBUTTONDOWN", "WM_MBUTTONUP"}

IsFallback(name) ==
  /\ Len(name) >= 4
  /\ SubSeq(name, 1, 3) = Str("Key")
  /\ \A i \in 4..Len(name) : name[i] \in 48..57

\* C19 (the claim as stated): a key event for a known printable key code
\* carries the single-character key name (the code of the letter a gives
\* "a"), and a key event whose name is the fallback name has, inside that
\* name, the raw key code carried in its keyCode field.
C19_KeyNameOfCode ==
  SentType({"keyDown", "keyUp"}) =>
    /\ (raw.kind = "xrecord" /\ raw.byte1 = 38) => event_map.key = Str("a")
    /\ (raw.kind = "xrecord" /\ raw.byte1 \in {10, 49, 65}) =>
         Len(event_map.key) = 1
    /\ (raw.kind = "keyboard" /\ raw.vkCode = 65) => event_map.key = Str("a")
    /\ (raw.kind = "keyboard" /\ raw.vkCode \in {48, 49, 90}) =>
         Len(event_map.key) = 1
    /\ IsFallback(event_map.key) =>
         Contains(event_map.key, Decimal(event_map.keyCode))

SymbolicNames ==
  {Str(n) : n \in {"Return", "Tab", "Backspace", "Escape", "Delete", "Home",
                   "End", "PageUp", "PageDown", "Left", "Right", "Up", "Down",
                   "F1", "F2", "F3", "F4", "F5", "F6", "F7", "F8", "F9",
                   "F10", "F11", "F12", "Shift", "Control", "Alt", "Meta"}}

\* C20 (the claim as stated): on both platforms the key name of every key
\* event is a single printable character, or one of the symbolic names
\* Return, Tab, Backspace, Escape, Delete, Home, End, PageUp, PageDown,
\* Left, Right, Up, Down, F1..F12, Shift, Control, Alt, Meta, or the
\* fallback name; and the Super/Windows key is named Meta.
C20_CanonicalKeyNames ==
  SentType({"keyDown", "keyUp"}) =>
    /\ \/ (Len(event_map.key) = 1 /\ event_map.key[1] \in 32..126)
       \/ event_map.key \in SymbolicNames
       \/ IsFallback(event_map.key)
    /\ (raw.kind = "xrecord" /\ raw.byte1 \in {133, 134}) =>
         event_map.key = Str("Meta")
    /\ (raw.kind = "keyboard" /\ raw.vkCode \in {91, 92}) =>
         event_map.key = Str("Meta")

\* C23 (the claim as stated): on Linux a mouseScroll event comes only from
\* a button-press record: a button-release record of button 4..7 adds no
\* mouseScroll event, so a scroll notch (press record, then release record
\* of the same button) delivers one mouseScroll event.
C23_ScrollOnlyFromPress ==
  (platform = "linux" /\ SentType({"mouseScroll"})) =>
    XEventType = ButtonPress

\* C24: on Windows a wheel message whose mouseData high word is the signed
\* 16-bit value d decodes to mouseScroll with d/120 on deltaY and 0 on
\* deltaX for WM_MOUSEWHEEL, d/120 on deltaX and 0 on deltaY for
\* WM_MOUSEHWHEEL; d = +120 gives exactly +1 and d = -120 exactly -1.
C24_WheelDelta ==
  (Decoded /\ raw.kind = "mouse"
     /\ raw.wParam \in {"WM_MOUSEWHEEL", "WM_MOUSEHWHEEL"}) =>
    LET d == IF raw.mouseData_hi >= 32768 THEN raw.mouseData_hi - 65536
             ELSE raw.mouseData_hi
        along == IF raw.wParam = "WM_MOUSEWHEEL" THEN event_map.deltaY
                 ELSE event_map.deltaX
        across == IF raw.wParam = "WM_MOUSEWHEEL" THEN event_map.deltaX
                  ELSE event_map.deltaY
    IN  /\ SentType({"mouseScroll"})
        /\ along.num * 120 = d * along.den
        /\ along.den > 0
        /\ across = [num |-> 0, den |-> 1]
        /\ d = 120 => along = [num |-> 1, den |-> 1]
        /\ d = -120 => along = [num |-> -1, den |-> 1]

\* C24 witness: a horizontal wheel message of one detent backwards (high
\* word 0xFF88 = -120) has been decoded to deltaX = -1, deltaY = 0.
C24_Witness ==
  /\ SentType({"mouseScroll"})
  /\ raw.kind = "mouse"
  /\ raw.wParam = "WM_MOUSEHWHEEL"
  /\ raw.mouseData_hi = 65416
  /\ event_map.deltaX = [num |-> -1, den |-> 1]
  /\ event_map.deltaY = [num |-> 0, den |-> 1]

\* ---------------------------------------------------- delivery claims
\* A raw record record_event_callback has no event for: it is not from the
\* server, or its event type is none of key press/release, button
\* press/release, motion.
Undecodable(r) ==
  \/ r.category # XRecordFromServer
  \/ r.byte0 % 128 \notin {KeyPress, KeyRelease, ButtonPress, ButtonRelease,
                           MotionNotify}

\* Thread t's record callback finishes in this step.
LCallbackEndsOn(t) == threads[t] = "callback" /\ threads'[t] = "enabled"

\* C21: a raw record that is not decodable yields no event and leaves the
\* capture running.  Linux: the callback of a record that is not from the
\* server, or of a type outside key/button/motion, hands nothing to the
\* sink, changes no field of the controller and no OS resource, and returns
\* into the enable call with its context still enabled; the callback of a
\* decodable record sends, whatever was dropped before it.  Windows: the
\* mouse hook procedure on a message its switch has no case for sends
\* nothing, changes nothing of the controller or the installed hooks and
\* returns through CallNextHookEx; on a message it has a case for it goes
\* on to send.
C21_UndecodableDropped ==
  [][ /\ \A t \in Ids :
           (platform = "linux" /\ LCallbackEndsOn(t)) =>
             /\ Undecodable(t_rec[t]) =>
                  /\ ~l_sent'
                  /\ UNCHANGED <<l_pc, l_sent_unheard>>
             /\ ~Undecodable(t_rec[t]) => l_sent' = (event_handler # NULL)
             /\ UNCHANGED <<LState, range, x11_record, x_conns, x_ctxs, t_ctx>>
             /\ x_ctxs[t_ctx[t]] = "enabled" => x_ctxs'[t_ctx[t]] = "enabled"
      /\ (HookStep /\ cb_pc = "decode" /\ cb_kind = "mouse") =>
           /\ cb_msg \notin RecognizedMouseMsgs =>
                /\ cb_pc' = "none"
                /\ ~cb_sent'
                /\ cb_fwd'
                /\ UNCHANGED <<WObj, WOs, w_pc>>
           /\ cb_msg \in RecognizedMouseMsgs => cb_pc' = "send"
    ]_vars

\* C21 witness: on Linux a capture is running, its worker is back in the
\* enable call with the context enabled after two records, and the last of
\* them was dropped (nothing was handed to the sink).
C21_Witness ==
  /\ LQuiet
  /\ is_capturing
  /\ record_thread # NULL
  /\ threads[record_thread] = "enabled"
  /\ x_ctxs[t_ctx[record_thread]] = "enabled"
  /\ l_events = 2
  /\ ~l_sent

\* C22: events are delivered without queuing.  A raw record yields at most
\* one event, handed to the sink by the callback invocation that decoded
\* it, before that invocation returns: on Linux an event is handed over
\* only in the step that ends the callback of a decodable record, and that
\* callback does hand it over; on Windows only in the send statement of the
\* hook invocation in flight.  The next raw record is taken up only when no
\* callback is in flight, so the sink gets the events in the order of the
\* raw records.
C22_DeliveredInsideTheCallbackInOrder ==
  [][ /\ platform = "linux" =>
           /\ (l_sent' /\ ~l_sent) =>
                \E t \in Ids : LCallbackEndsOn(t) /\ ~Undecodable(t_rec[t])
           /\ \A t \in Ids :
                (LCallbackEndsOn(t) /\ ~Undecodable(t_rec[t])) =>
                  l_sent' = (event_handler # NULL)
           /\ (l_events' = l_events + 1) =>
                /\ \A t \in Ids : threads[t] # "callback"
                /\ ~l_sent'
      /\ platform = "windows" =>
           /\ (cb_sent' /\ ~cb_sent) => (HookStep /\ cb_pc = "send")
           /\ (HookStep /\ cb_pc = "send" /\ instance_ # NULL) =>
                cb_sent' = (event_sink_ # NULL)
           /\ (w_events' = w_events + 1) => (cb_pc = "none" /\ ~cb_sent')
    ]_vars

\* C22 witness: on Linux two records have been delivered to the worker of a
\* running capture, a consumer is subscribed, the second record's event was
\* handed to the sink and the callback has returned.
C22_Witness ==
  /\ platform = "linux"
  /\ is_capturing
  /\ l_listening
  /\ l_events = 2
  /\ l_sent
  /\ \A t \in Ids : threads[t] # "callback"

\* ------------------------------------------------- termination of Stop
\* C25 (the claim as stated): on Linux every Stop issued while Running
\* returns: once the stop_capture of a stopCapture call is past its guard
\* (it has found is_capturing set) it reaches its return, under fair
\* scheduling of the platform thread, the worker and the server.
C25_StopReturns ==
  (platform = "linux" /\ l_call = "stopCapture" /\ l_pc = "stop_flags")
    ~> (l_pc = "respond")

\* ---------------------------------------------------------------- C26
\* C26: on Linux no X connection is used by two threads at the same time:
\* whenever the platform thread is at an Xlib call on the record connection
\* no worker is between its spawn and its join, and whenever the platform
\* thread is at an Xlib call on the query connection (checkPermissions,
\* requestPermissions, the disable/free of Stop) no worker is at the
\* key-name lookup on that connection.
C26_NoConnectionUsedByTwoThreads ==
  platform = "linux" =>
    /\ MainUsesRecordDisplay =>
         \A t \in Ids : ~WorkerUsesRecordDisplay(t)
    /\ MainUsesDisplay =>
         \A t \in Ids : ~WorkerUsesDisplay(t)

\* ---------------------------------------------------------------- C27
\* C27: on Linux, across any sequence of Start/Stop calls, at most one
\* worker thread is alive and at most one is not yet joined; a worker is
\* spawned only when none is left from before; the join of Stop names a
\* thread that was spawned and has not been joined (so each worker is joined
\* once); and when Stop returns the controller is back in its initial Idle
\* state: is_capturing false, record_display empty, record_context 0, no
\* connection, context or thread held, which is the state a Start succeeds
\* from.
C27_OneWorkerJoinedOnce ==
  platform = "linux" =>
    /\ Cardinality(AliveThreads) <= 1
    /\ Cardinality(HeldThreads) <= 1
    /\ l_pc = "start_thread" => HeldThreads = {}
    /\ l_pc = "stop_join" =>
         /\ record_thread # NULL
         /\ threads[record_thread] # "none"
         /\ HeldThreads = {record_thread}
    /\ (l_call = "stopCapture" /\ l_pc \in {"respond", "idle"}) =>
         /\ is_capturing = FALSE
         /\ thread_running = FALSE
         /\ record_display = NULL
         /\ record_context = NULL
         /\ LNothingHeld

\* C27 witness: startCapture answered true, stopCapture was answered, and
\* the startCapture that followed has spawned its worker, the only one
\* alive.
C27_Witness ==
  /\ platform = "linux"
  /\ l_call = "startCapture"
  /\ l_pc = "start_mark"
  /\ l_reply.method = "stopCapture"
  /\ l_reply.prev = "startCapture" /\ l_reply.pvalue
  /\ Cardinality(AliveThreads) = 1

\* ---------------------------------------------------------------- C28
\* C28: on Linux, once input_capture_plugin_register_with_registrar has
\* returned, the controller that is the user data of the two handlers is
\* alive: its reference count is above zero and it has not been disposed
\* (its query connection is still set), at every statement of every
\* startCapture / stopCapture / isCapturing call.
C28_HandlersOperateOnLiveController ==
  (/\ platform = "linux"
   /\ r_pc = "done"
   /\ l_call \in {"startCapture", "stopCapture", "isCapturing"}
   /\ l_pc \in StartPcs \cup StopPcs \cup {"respond"})
    => /\ ref_count > 0
       /\ display # NULL
====
